---- MODULE Spec2Model ----
(***************************************************************************)
(* Sokoban solver: the game engine (game_engine.py: GameState,             *)
(* SokobanGame) and the search subsystem (ai_agent.py: AStarSearch,        *)
(* BFSSearch, DFSSearch, SimpleGreedyFallback).                            *)
(*                                                                         *)
(* Python values are modelled as follows.  A position is the tuple         *)
(* <<x, y>>, 0-based as in the source.  A level is a sequence of rows,     *)
(* each row a sequence of one-character strings.  A GameState object is a  *)
(* record of its fields; its crate_positions field is a reference (an      *)
(* index) into the variable sets, the store of Python set objects, so      *)
(* that clone()'s copy of the set and move()'s in-place update of it are   *)
(* what the source does.  None is NoTime for the two time stamps;          *)
(* time.time() is the variable now, which is positive and never decreases. *)
(***************************************************************************)
EXTENDS Integers, Sequences, FiniteSets, TLC

VARIABLES
    level_data,     \* the level definition handed to the constructors
    pc,             \* "new" | "play" | "failed" | "loop" | "done"
    error,          \* NoError or the exception raised by construction
    human_state,    \* SokobanGame.human_state (a GameState record) or NoState
    ai_state,       \* SokobanGame.ai_state
    sets,           \* store of Python set objects: crate_positions of every GameState
    now,            \* the reading of time.time()
    call,           \* the last call made on the game and what it returned
    \* the locals of one call of search(initial_state, max_time, difficulty)
    alg,            \* "astar" | "bfs" | "dfs": the class whose search runs
    difficulty,
    max_time,
    start_time,
    pq,             \* AStarSearch: the PriorityQueue, in insertion order
    queue,          \* BFSSearch: the Queue
    stack,          \* DFSSearch: the deque
    visited,
    nodes_explored,
    best_path,
    best_heuristic, \* AStarSearch
    best_state,     \* AStarSearch
    counter,        \* AStarSearch
    result,         \* what search returned: None or a list of directions
    reason,         \* which return statement ended the search
    trace,          \* the keys put into the frontier, the keys taken from it, and
                    \* whether DFS left a state at its depth ceiling unexpanded
    \* the AIController
    controller,     \* the AIController object (a record of its fields) or NoController
    ctl_call,       \* the last call made on the controller and what it returned
                    \* (or that it is in its search)
    searched        \* what the search of the last compute_solution returned, and
                    \* the state it was called with

gameVars == <<level_data, pc, error, human_state, ai_state, sets, now, call>>
searchVars == <<alg, difficulty, max_time, start_time, pq, queue, stack, visited,
                nodes_explored, best_path, best_heuristic, best_state, counter,
                result, reason, trace>>
ctlVars == <<controller, ctl_call, searched>>
vars == <<gameVars, searchVars, ctlVars>>

----------------------------------------------------------------------------
(* Bounds of the model *)

\* search_times in readings of the clock (5.0, 8.0 and 12.0 seconds in the
\* source)
SearchTimeEasy == 1
SearchTimeMedium == 2
SearchTimeHard == 3

\* most cells of a level drawn for the constructor
MaxCells == 2
\* most rows of a level drawn for the constructor
MaxRows == 2
\* most accepted moves per player in the play specification
MaxMoves == 3
\* last reading of the clock
MaxNow == 2

\* The node and depth ceilings of the three searches, scaled down so that a
\* level of a few cells reaches them (the source's values are in the comments)
\* AStarSearch max_nodes: 30000, 50000, 100000
AStarNodesEasy == 3
AStarNodesMedium == 6
AStarNodesHard == 90
\* BFSSearch and DFSSearch max_nodes: 20000, 40000, 80000
NodesEasy == 2
NodesMedium == 5
NodesHard == 90
\* DFSSearch max_depth: 50, 80, 120
DepthEasy == 2
DepthMedium == 4
DepthHard == 12
\* BFSSearch and DFSSearch lines 154 and 212: a path of 100 moves or more is
\* never the best path; scaled down with the ceilings
PathCap == 10

----------------------------------------------------------------------------
(* game_engine.py: Tile, Direction *)

NoTime == 0
NoState == [player_id |-> "none"]
NoCall == [op |-> "none"]
NoController == [none |-> TRUE]
NoCtlCall == [op |-> "none"]
NoSearch == [none |-> TRUE]
NoError == [type |-> "none", msg |-> ""]
\* float('inf'), and a finite number
PosInf == [inf |-> TRUE, value |-> 0]
Finite(n) == [inf |-> FALSE, value |-> n]
\* a <= b in place of a < b
LessOrEqual(a, b) == b.inf \/ a <= b.value
\* a < b for a finite a and b finite or infinite
LessThan(a, b) == b.inf \/ a < b.value
\* the values search returns: None, or a list of directions
None == [none |-> TRUE, path |-> <<>>]
PathOf(path) == [none |-> FALSE, path |-> path]
ValueError(msg) == [type |-> "ValueError", msg |-> msg]

\* the seven symbols of tile_map and one that it does not hold
Alphabet == {"#", " ", ".", "$", "*", "@", "+", "x"}

\* _parse_level's tile_map, with tile_map.get(char, Tile.EMPTY)
tile_map(char) ==
    CASE char = "#" -> "WALL"
      [] char = " " -> "EMPTY"
      [] char = "." -> "TARGET"
      [] char = "$" -> "CRATE"
      [] char = "*" -> "CRATE_ON_TARGET"
      [] char = "@" -> "PLAYER"
      [] char = "+" -> "PLAYER_ON_TARGET"
      [] OTHER -> "EMPTY"

\* Tile.<name>.value
TileValue(t) ==
    CASE t = "EMPTY" -> 0
      [] t = "WALL" -> 1
      [] t = "TARGET" -> 2
      [] t = "CRATE" -> 3
      [] t = "CRATE_ON_TARGET" -> 4
      [] t = "PLAYER" -> 5
      [] t = "PLAYER_ON_TARGET" -> 6

\* Direction, in the order the Enum declares (and iterates) its members
Direction == <<"UP", "DOWN", "LEFT", "RIGHT">>
Directions == {"UP", "DOWN", "LEFT", "RIGHT"}

\* Direction.<name>.value = (dx, dy)
DirValue(d) ==
    CASE d = "UP" -> <<0, -1>>
      [] d = "DOWN" -> <<0, 1>>
      [] d = "LEFT" -> <<-1, 0>>
      [] d = "RIGHT" -> <<1, 0>>

----------------------------------------------------------------------------
(* GameState.__init__ and _parse_level *)

RECURSIVE MaxRowLen(_, _)
\* max(len(row) for row in level_data), for a non-empty level_data
MaxRowLen(level, i) ==
    IF i > Len(level) THEN 0
    ELSE LET rest == MaxRowLen(level, i + 1)
         IN IF Len(level[i]) > rest THEN Len(level[i]) ELSE rest

\* one pass of _parse_level's inner loop body on the cell (x, y) holding char
ParseCell(acc, x, y, char) ==
    LET tile == tile_map(char)
        SetGrid(t) == [acc.grid EXCEPT ![y][x] = t]
    IN CASE tile = "PLAYER" ->
              [acc EXCEPT !.player_pos = <<x, y>>, !.grid = SetGrid("EMPTY")]
         [] tile = "PLAYER_ON_TARGET" ->
              [acc EXCEPT !.player_pos = <<x, y>>, !.grid = SetGrid("TARGET"),
                          !.targets = @ \cup {<<x, y>>}]
         [] tile = "TARGET" ->
              [acc EXCEPT !.grid = SetGrid("TARGET"), !.targets = @ \cup {<<x, y>>}]
         [] tile = "CRATE" ->
              [acc EXCEPT !.grid = SetGrid("EMPTY"), !.crates = @ \cup {<<x, y>>}]
         [] tile = "CRATE_ON_TARGET" ->
              [acc EXCEPT !.grid = SetGrid("TARGET"), !.targets = @ \cup {<<x, y>>},
                          !.crates = @ \cup {<<x, y>>}]
         [] OTHER ->
              [acc EXCEPT !.grid = SetGrid(tile)]

RECURSIVE ParseFrom(_, _, _, _)
\* _parse_level's two loops, from row index y (0-based), column index x
ParseFrom(acc, level, y, x) ==
    IF y >= Len(level) THEN acc
    ELSE IF x >= Len(level[y + 1]) THEN ParseFrom(acc, level, y + 1, 0)
    ELSE ParseFrom(ParseCell(acc, x, y, level[y + 1][x + 1]), level, y, x + 1)

_parse_level(acc, level) == ParseFrom(acc, level, 0, 0)

\* ValidateLevel without its third check
ValidateLevelNoMismatch(targets, crates) ==
    IF Cardinality(targets) = 0 THEN ValueError("Level has no targets!")
    ELSE IF Cardinality(crates) = 0 THEN ValueError("Level has no crates!")
    ELSE NoError

\* the three checks that end __init__
ValidateLevel(targets, crates) ==
    IF Cardinality(targets) = 0 THEN ValueError("Level has no targets!")
    ELSE IF Cardinality(crates) = 0 THEN ValueError("Level has no crates!")
    ELSE IF Cardinality(crates) # Cardinality(targets) THEN ValueError("Crate/target mismatch")
    ELSE NoError

\* GameState(level_data, player_id) with the set store h: the exception raised
\* ("none" when construction succeeds), the new object and the store holding
\* its crate_positions set
GameStateInit(h, level, player_id) ==
    IF Len(level) = 0
    THEN [error |-> ValueError("max() arg is an empty sequence"), state |-> NoState, sets |-> h]
    ELSE
    LET width == MaxRowLen(level, 1)
        height == Len(level)
        acc0 == [grid |-> [y \in 0..(height - 1) |-> [x \in 0..(width - 1) |-> "EMPTY"]],
                 player_pos |-> <<0, 0>>,
                 targets |-> {},
                 crates |-> {}]
        acc == _parse_level(acc0, level)
        err == ValidateLevel(acc.targets, acc.crates)
        ref == Len(h) + 1
    IN IF err # NoError
       THEN [error |-> err, state |-> NoState, sets |-> h]
       ELSE [error |-> NoError,
             state |-> [player_id |-> player_id,
                        moves |-> 0,
                        pushes |-> 0,
                        start_time |-> NoTime,
                        end_time |-> NoTime,
                        is_playing |-> FALSE,
                        width |-> width,
                        height |-> height,
                        grid |-> acc.grid,
                        player_pos |-> acc.player_pos,
                        targets |-> acc.targets,
                        crate_positions |-> ref,
                        initial_state |-> <<acc.player_pos, acc.crates>>],
             sets |-> Append(h, acc.crates)]

----------------------------------------------------------------------------
(* GameState: move, is_solved, _get_state_hash, clone *)

\* the crate_positions set object of s in the store h
Crates(h, s) == h[s.crate_positions]

\* GameState._in_bounds
_in_bounds(s, pos) ==
    /\ 0 <= pos[1] /\ pos[1] < s.width
    /\ 0 <= pos[2] /\ pos[2] < s.height

\* GameState.is_solved
is_solved(h, s) == Crates(h, s) = s.targets

\* _get_state_hash that leaves the crates out of the key
HashPlayerOnly(h, s) == <<s.player_pos, {}>>

\* GameState._get_state_hash: (player_pos, frozenset(crate_positions))
_get_state_hash(h, s) == <<s.player_pos, Crates(h, s)>>

\* GameState.start_playing at clock reading t
start_playing(s, t) ==
    IF ~s.is_playing
    THEN [s EXCEPT !.start_time = t, !.is_playing = TRUE]
    ELSE s

\* clone without the .copy() of crate_positions: both objects hold one set
CloneSharedSet(h, s) == [state |-> s, sets |-> h]

\* GameState.clone: a new object whose crate_positions is a copy of the set
clone(h, s) ==
    [state |-> [s EXCEPT !.crate_positions = Len(h) + 1],
     sets |-> Append(h, Crates(h, s))]

\* a rejection that has already counted the move
RejectedButCounted(h, s) ==
    [ret |-> FALSE, state |-> [s EXCEPT !.moves = @ + 1], sets |-> h]

\* lines 110, 112, 118, 120, 122: return False
move_rejected(h, s) == [ret |-> FALSE, state |-> s, sets |-> h]

\* push_blocked without the test for another crate
PushBlockedByWallOnly(h, s, crate_new_pos) ==
    IF ~_in_bounds(s, crate_new_pos) THEN TRUE
    ELSE s.grid[crate_new_pos[2]][crate_new_pos[1]] = "WALL"

\* lines 117-122: whether the crate cannot go to crate_new_pos
push_blocked(h, s, crate_new_pos) ==
    IF ~_in_bounds(s, crate_new_pos) THEN TRUE
    ELSE IF s.grid[crate_new_pos[2]][crate_new_pos[1]] = "WALL" THEN TRUE
    ELSE crate_new_pos \in Crates(h, s)

\* lines 123-125: the crate at new_pos goes to crate_new_pos
push_crate(h, s, new_pos, crate_new_pos) ==
    [state |-> [s EXCEPT !.pushes = @ + 1],
     sets |-> [h EXCEPT ![s.crate_positions] = (@ \ {new_pos}) \cup {crate_new_pos}]]

\* move_accepted without the increment of moves
AcceptedNotCounted(h, s, new_pos, t) ==
    LET s1 == [s EXCEPT !.player_pos = new_pos]
        s2 == IF is_solved(h, s1) /\ s1.end_time = NoTime
              THEN [s1 EXCEPT !.end_time = t]
              ELSE s1
    IN [ret |-> TRUE, state |-> s2, sets |-> h]

\* lines 127-134: the player steps to new_pos
move_accepted(h, s, new_pos, t) ==
    LET s1 == [s EXCEPT !.player_pos = new_pos, !.moves = @ + 1]
        s2 == IF is_solved(h, s1) /\ s1.end_time = NoTime
              THEN [s1 EXCEPT !.end_time = t]
              ELSE s1
    IN [ret |-> TRUE, state |-> s2, sets |-> h]

\* GameState.move(direction) on the object s0, at clock reading t: the value
\* returned, the object's fields after the call and the set store after it
move(h, s0, direction, t) ==
    LET s == IF ~s0.is_playing THEN start_playing(s0, t) ELSE s0
        dx == DirValue(direction)[1]
        dy == DirValue(direction)[2]
        new_x == s.player_pos[1] + dx
        new_y == s.player_pos[2] + dy
        new_pos == <<new_x, new_y>>
        crate_new_pos == <<new_x + dx, new_y + dy>>
    IN IF ~_in_bounds(s, new_pos) THEN move_rejected(h, s)
       ELSE IF s.grid[new_y][new_x] = "WALL" THEN move_rejected(h, s)
       ELSE IF new_pos \in Crates(h, s)
       THEN IF push_blocked(h, s, crate_new_pos) THEN move_rejected(h, s)
            ELSE LET p == push_crate(h, s, new_pos, crate_new_pos)
                 IN move_accepted(p.sets, p.state, new_pos, t)
       ELSE move_accepted(h, s, new_pos, t)

----------------------------------------------------------------------------
(* ai_agent.py: SimpleGreedyFallback *)

Abs(n) == IF n < 0 THEN -n ELSE n

\* abs(a[0] - b[0]) + abs(a[1] - b[1])
Manhattan(a, b) == Abs(a[1] - b[1]) + Abs(a[2] - b[2])

\* whether direction d occurs in the list ds
InList(d, ds) == \E i \in 1..Len(ds) : ds[i] = d

\* lines 281-283 left out: only the directions toward the crate are tried
NoRemaining(ds, i) == ds

RECURSIVE AddRemaining(_, _)
\* lines 281-283: every Direction not yet in the list, in declaration order
AddRemaining(ds, i) ==
    IF i > Len(Direction) THEN ds
    ELSE AddRemaining(IF InList(Direction[i], ds) THEN ds ELSE Append(ds, Direction[i]), i + 1)

\* lines 260-283 with the test of line 261 turned into abs(dy) >= abs(dx)
MovesToTryVerticalOnTie(dx, dy) ==
    LET first ==
            IF Abs(dy) >= Abs(dx)
            THEN <<IF dy > 0 THEN "DOWN" ELSE "UP">>
                 \o (IF dx > 0 THEN <<"RIGHT">> ELSE IF dx < 0 THEN <<"LEFT">> ELSE <<>>)
            ELSE <<IF dx > 0 THEN "RIGHT" ELSE "LEFT">>
                 \o (IF dy > 0 THEN <<"DOWN">> ELSE IF dy < 0 THEN <<"UP">> ELSE <<>>)
    IN AddRemaining(first, 1)

\* lines 260-283: the preference list for the offset (dx, dy) to the nearest crate
moves_to_try(dx, dy) ==
    LET first ==
            IF Abs(dy) > Abs(dx)
            THEN <<IF dy > 0 THEN "DOWN" ELSE "UP">>
                 \o (IF dx > 0 THEN <<"RIGHT">> ELSE IF dx < 0 THEN <<"LEFT">> ELSE <<>>)
            ELSE <<IF dx > 0 THEN "RIGHT" ELSE "LEFT">>
                 \o (IF dy > 0 THEN <<"DOWN">> ELSE IF dy < 0 THEN <<"UP">> ELSE <<>>)
    IN AddRemaining(first, 1)

RECURSIVE TryMoves(_, _, _, _, _)
\* lines 286-291: the first direction of ds, from index i, that a clone accepts
TryMoves(h, s, ds, i, t) ==
    IF i > Len(ds) THEN [ret |-> "None", sets |-> h]
    ELSE LET c == clone(h, s)
             m == move(c.sets, c.state, ds[i], t)
         IN IF m.ret THEN [ret |-> ds[i], sets |-> m.sets]
            ELSE TryMoves(m.sets, s, ds, i + 1, t)

\* lines 244: the crates of s that are on no target
UnsolvedCrates(h, s) == {c \in Crates(h, s) : c \notin s.targets}

\* lines 250-253: min() returns the first crate of least distance in the
\* iteration order of the set, which is any crate of least distance
NearestCrates(h, s) ==
    {c \in UnsolvedCrates(h, s) :
        \A o \in UnsolvedCrates(h, s) :
            Manhattan(c, s.player_pos) <= Manhattan(o, s.player_pos)}

\* SimpleGreedyFallback.get_next_move(state) when min() picks nearest_crate:
\* the direction returned and the store once the clones are dropped
GreedyNextMove(h, s, nearest_crate, t) ==
    LET dx == nearest_crate[1] - s.player_pos[1]
        dy == nearest_crate[2] - s.player_pos[2]
        r == TryMoves(h, s, moves_to_try(dx, dy), 1, t)
    IN [ret |-> r.ret, sets |-> SubSeq(r.sets, 1, Len(h))]

----------------------------------------------------------------------------
(* ai_agent.py: AStarSearch._heuristic, _is_corner_deadlock; the ceilings *)

\* line 105: the penalty for a crate in a corner
DeadlockPenalty == 500

\* AStarSearch._is_corner_deadlock(state, pos)
_is_corner_deadlock(s, pos) ==
    LET x == pos[1]
        y == pos[2]
        left_wall == (x = 0 \/ TileValue(s.grid[y][x - 1]) = 1)
        right_wall == (x = s.width - 1 \/ TileValue(s.grid[y][x + 1]) = 1)
        top_wall == (y = 0 \/ TileValue(s.grid[y - 1][x]) = 1)
        bottom_wall == (y = s.height - 1 \/ TileValue(s.grid[y + 1][x]) = 1)
    IN (left_wall \/ right_wall) /\ (top_wall \/ bottom_wall)

\* lines 96-99: min(abs(crate[0] - t[0]) + abs(crate[1] - t[1]) for t in targets)
min_dist(crate, targets) ==
    CHOOSE n \in {Manhattan(crate, t) : t \in targets} :
        \A m \in {Manhattan(crate, t) : t \in targets} : n <= m

RECURSIVE SumMinDist(_, _)
\* lines 95-100: the sum of min_dist over the unsolved crates
SumMinDist(unsolved, targets) ==
    IF unsolved = {} THEN 0
    ELSE LET crate == CHOOSE c \in unsolved : TRUE
         IN min_dist(crate, targets) + SumMinDist(unsolved \ {crate}, targets)

\* _heuristic without lines 102-105
HeuristicWithoutPenalty(h, s) ==
    IF is_solved(h, s) THEN 0
    ELSE LET unsolved == {c \in Crates(h, s) : c \notin s.targets}
         IN IF unsolved = {} THEN 0
            ELSE SumMinDist(unsolved, s.targets)

\* AStarSearch._heuristic(state)
_heuristic(h, s) ==
    IF is_solved(h, s) THEN 0
    ELSE LET unsolved == {c \in Crates(h, s) : c \notin s.targets}
         IN IF unsolved = {} THEN 0
            ELSE SumMinDist(unsolved, s.targets)
                 + DeadlockPenalty * Cardinality({c \in unsolved : _is_corner_deadlock(s, c)})

\* AStarSearch.search lines 12-17
AStarMaxNodes(diff) ==
    IF diff = "easy" THEN AStarNodesEasy
    ELSE IF diff = "medium" THEN AStarNodesMedium
    ELSE AStarNodesHard

\* BFSSearch.search lines 128-133, DFSSearch.search lines 184-192
MaxNodes(diff) ==
    IF diff = "easy" THEN NodesEasy
    ELSE IF diff = "medium" THEN NodesMedium
    ELSE NodesHard

\* DFSSearch.search lines 184-192
MaxDepth(diff) ==
    IF diff = "easy" THEN DepthEasy
    ELSE IF diff = "medium" THEN DepthMedium
    ELSE DepthHard

----------------------------------------------------------------------------
(* ai_agent.py: the frontiers and one expansion of each search *)

\* visited without the key of the initial state
VisitedEmpty(h, s) == {}

\* lines 23-24, 137-138, 196-197: visited = set(); visited.add(initial key)
InitialVisited(h, s) == {_get_state_hash(h, s)}

\* a path grown at its front
PathPrepend(path, direction) == <<direction>> \o path

\* a path that is not grown
PathNotExtended(path, direction) == path

\* lines 64, 167, 228: new_path = path + [direction]
new_path(path, direction) == Append(path, direction)

\* PriorityQueue.get(): the least entry, by f and then by counter
\* a get() that breaks ties of f by the largest counter
PQGetNewestOnTie(q) ==
    LET e == CHOOSE e \in {q[i] : i \in 1..Len(q)} :
                 \A i \in 1..Len(q) :
                     \/ e.f < q[i].f
                     \/ (e.f = q[i].f /\ e.counter >= q[i].counter)
    IN [entry |-> e, rest |-> SelectSeq(q, LAMBDA o : o.counter # e.counter)]

PQGet(q) ==
    LET e == CHOOSE e \in {q[i] : i \in 1..Len(q)} :
                 \A i \in 1..Len(q) :
                     \/ e.f < q[i].f
                     \/ (e.f = q[i].f /\ e.counter <= q[i].counter)
    IN [entry |-> e, rest |-> SelectSeq(q, LAMBDA o : o.counter # e.counter)]

\* a get() that takes the entry put last
QueueGetLast(q) == [entry |-> q[Len(q)], rest |-> SubSeq(q, 1, Len(q) - 1)]

\* a get() that leaves the entry in the queue
QueuePeek(q) == [entry |-> Head(q), rest |-> q]

\* Queue.get(): the entry put first
QueueGet(q) == [entry |-> Head(q), rest |-> Tail(q)]

\* deque.pop(): the entry appended last
StackPop(q) == [entry |-> q[Len(q)], rest |-> SubSeq(q, 1, Len(q) - 1)]

\* the store after a clone that was not kept is dropped
Dropped(h, before) == SubSeq(h, 1, Len(before))

\* F of the value of e, with e evaluated once
With(e, F(_)) == CHOOSE v \in {F(x) : x \in {e}} : TRUE

\* lines 56-57, 162-163, 223-224: new_state = current_state.clone();
\* new_state.move(direction)
TryMove(acc, cur, direction, t) ==
    With(clone(acc.sets, cur.state), LAMBDA c : move(c.sets, c.state, direction, t))

RECURSIVE AStarExpand(_, _, _, _)
\* AStarSearch.search lines 55-66, from the i-th direction on; acc holds sets,
\* visited, pq, counter and the keys put
AStarExpand(acc, cur, i, t) ==
    IF i > Len(Direction) THEN acc
    ELSE With(acc, LAMBDA a :
         With(TryMove(a, cur, Direction[i], t), LAMBDA m :
            LET state_hash == _get_state_hash(m.sets, m.state)
            IN IF m.ret /\ state_hash \notin a.visited
               THEN LET new_g == cur.g + 1
                        new_h == _heuristic(m.sets, m.state)
                        new_f == new_g + new_h
                    IN AStarExpand(
                           [sets |-> m.sets,
                            visited |-> a.visited \cup {state_hash},
                            counter |-> a.counter + 1,
                            frontier |-> Append(a.frontier,
                                           [f |-> new_f, counter |-> a.counter + 1,
                                            state |-> m.state, g |-> new_g,
                                            path |-> new_path(cur.path, Direction[i])]),
                            put |-> Append(a.put, state_hash)],
                           cur, i + 1, t)
               ELSE AStarExpand([a EXCEPT !.sets = Dropped(m.sets, a.sets)], cur, i + 1, t)))

RECURSIVE BFSExpand(_, _, _, _)
\* BFSSearch.search lines 161-168
BFSExpand(acc, cur, i, t) ==
    IF i > Len(Direction) THEN acc
    ELSE With(acc, LAMBDA a :
         With(TryMove(a, cur, Direction[i], t), LAMBDA m :
            LET state_hash == _get_state_hash(m.sets, m.state)
            IN IF m.ret /\ state_hash \notin a.visited
               THEN BFSExpand(
                        [sets |-> m.sets,
                         visited |-> a.visited \cup {state_hash},
                         counter |-> a.counter,
                         frontier |-> Append(a.frontier,
                                        [state |-> m.state,
                                         path |-> new_path(cur.path, Direction[i])]),
                         put |-> Append(a.put, state_hash)],
                        cur, i + 1, t)
               ELSE BFSExpand([a EXCEPT !.sets = Dropped(m.sets, a.sets)], cur, i + 1, t)))

RECURSIVE DFSExpand(_, _, _, _)
\* DFSSearch.search lines 222-229
DFSExpand(acc, cur, i, t) ==
    IF i > Len(Direction) THEN acc
    ELSE With(acc, LAMBDA a :
         With(TryMove(a, cur, Direction[i], t), LAMBDA m :
            LET state_hash == _get_state_hash(m.sets, m.state)
            IN IF m.ret /\ state_hash \notin a.visited
               THEN DFSExpand(
                        [sets |-> m.sets,
                         visited |-> a.visited \cup {state_hash},
                         counter |-> a.counter,
                         frontier |-> Append(a.frontier,
                                        [state |-> m.state,
                                         path |-> new_path(cur.path, Direction[i]),
                                         depth |-> cur.depth + 1]),
                         put |-> Append(a.put, state_hash)],
                        cur, i + 1, t)
               ELSE DFSExpand([a EXCEPT !.sets = Dropped(m.sets, a.sets)], cur, i + 1, t)))

----------------------------------------------------------------------------
(* Levels *)

RECURSIVE RowsOfLen(_)
\* every row of exactly n characters
RowsOfLen(n) ==
    IF n = 0 THEN {<<>>}
    ELSE {Append(r, c) : r \in RowsOfLen(n - 1), c \in Alphabet}

RECURSIVE LevelsWith(_, _)
\* every level of exactly r rows holding at most c characters in all
LevelsWith(r, c) ==
    IF r = 0 THEN {<<>>}
    ELSE UNION {{<<row>> \o rest : row \in RowsOfLen(n), rest \in LevelsWith(r - 1, c - n)}
                : n \in 0..c}

\* the levels drawn for the constructor: every level of at most rows rows
\* and cells characters
LoadLevels(rows, cells) == UNION {LevelsWith(r, cells) : r \in 0..rows}

----------------------------------------------------------------------------
(* SokobanGame.__init__ *)

\* SokobanGame(level_data): both states are built, or the exception propagates
NewGame ==
    /\ pc = "new"
    /\ LET h == GameStateInit(sets, level_data, "human")
           a == GameStateInit(h.sets, level_data, "ai")
       IN IF h.error # NoError
          THEN /\ pc' = "failed"
               /\ error' = h.error
               /\ UNCHANGED <<human_state, ai_state, sets>>
          ELSE /\ pc' = "play"
               /\ error' = NoError
               /\ human_state' = h.state
               /\ ai_state' = a.state
               /\ sets' = a.sets
    /\ UNCHANGED <<level_data, now, call>>
    /\ UNCHANGED searchVars
    /\ UNCHANGED ctlVars

\* no search has been called
SearchBlank ==
    /\ alg = "none"
    /\ difficulty = "none"
    /\ max_time = 0
    /\ start_time = NoTime
    /\ pq = <<>>
    /\ queue = <<>>
    /\ stack = <<>>
    /\ visited = {}
    /\ nodes_explored = 0
    /\ best_path = <<>>
    /\ best_heuristic = PosInf
    /\ best_state = NoState
    /\ counter = 0
    /\ result = None
    /\ reason = "none"
    /\ trace = [put |-> <<>>, got |-> <<>>, cut |-> FALSE, paths |-> <<>>]

\* no AIController has been constructed
CtlBlank ==
    /\ controller = NoController
    /\ ctl_call = NoCtlCall
    /\ searched = NoSearch

InitBlank ==
    /\ pc = "new"
    /\ error = NoError
    /\ human_state = NoState
    /\ ai_state = NoState
    /\ sets = <<>>
    /\ now = 1
    /\ call = NoCall

InitLoad == level_data \in LoadLevels(MaxRows, MaxCells) /\ InitBlank /\ SearchBlank /\ CtlBlank

NextLoad == NewGame

SpecLoad == InitLoad /\ [][NextLoad]_vars

----------------------------------------------------------------------------
(* SokobanGame: move_human, move_ai; the application's calls *)

\* the fields of the object s that a call may change, with the set's elements
View(h, s) ==
    [player_pos |-> s.player_pos,
     crates |-> Crates(h, s),
     moves |-> s.moves,
     pushes |-> s.pushes,
     is_playing |-> s.is_playing,
     start_time |-> s.start_time,
     end_time |-> s.end_time]

\* SokobanGame.move_human(direction)
move_human(d) ==
    /\ pc = "play"
    /\ human_state.moves < MaxMoves
    /\ LET r == move(sets, human_state, d, now)
       IN /\ human_state' = r.state
          /\ sets' = r.sets
          /\ call' = [op |-> "move", who |-> "human", dir |-> d, ret |-> r.ret,
                      pre |-> View(sets, human_state)]
    /\ UNCHANGED <<level_data, pc, error, ai_state, now>>
    /\ UNCHANGED searchVars
    /\ UNCHANGED ctlVars

\* SokobanGame.move_ai(direction)
move_ai(d) ==
    /\ pc = "play"
    /\ ai_state.moves < MaxMoves
    /\ LET r == move(sets, ai_state, d, now)
       IN /\ ai_state' = r.state
          /\ sets' = r.sets
          /\ call' = [op |-> "move", who |-> "ai", dir |-> d, ret |-> r.ret,
                      pre |-> View(sets, ai_state)]
    /\ UNCHANGED <<level_data, pc, error, human_state, now>>
    /\ UNCHANGED searchVars
    /\ UNCHANGED ctlVars

\* SimpleGreedyFallback.get_next_move(ai_state), as AIController.get_next_move
\* calls it on the live state
greedy_get_next_move ==
    /\ pc = "play"
    /\ IF UnsolvedCrates(sets, ai_state) = {}
       THEN /\ call' = [op |-> "greedy", who |-> "ai", dir |-> "None", ret |-> FALSE,
                        pre |-> View(sets, ai_state)]
            /\ sets' = sets
       ELSE \E nearest_crate \in NearestCrates(sets, ai_state) :
              LET r == GreedyNextMove(sets, ai_state, nearest_crate, now)
              IN /\ call' = [op |-> "greedy", who |-> "ai", dir |-> r.ret,
                             ret |-> r.ret # "None", pre |-> View(sets, ai_state)]
                 /\ sets' = r.sets
    /\ UNCHANGED <<level_data, pc, error, human_state, ai_state, now>>
    /\ UNCHANGED searchVars
    /\ UNCHANGED ctlVars

\* time passes between two calls
Tick ==
    /\ pc = "play"
    /\ now < MaxNow
    /\ now' = now + 1
    /\ UNCHANGED <<level_data, pc, error, human_state, ai_state, sets, call>>
    /\ UNCHANGED searchVars
    /\ UNCHANGED ctlVars

\* the levels played: open and walled, ragged rows, no player symbol, a player
\* on a target, crates on targets, crates in line, a crate in a corner
PlayLevels ==
    { << <<"@", "$", ".">>, <<" ">> >>,
      << <<"#", "$", ".">> >>,
      << <<"$", ".">> >>,
      << <<"@", "$", "$", ".", ".">>, <<" ">> >>,
      << <<"#", "#", "#", "#">>,
         <<"#", "@", "$", "#">>,
         <<"#", ".", "*", "#">>,
         <<"#", "#", "#", "#">> >>,
      << <<"+", "*", "$">>, <<" ", " ", " ">> >>,
      << <<" ", "x", " ">>, <<"@", "$", ".">>, <<" ", "$", ".">> >> }

Init == level_data \in PlayLevels /\ InitBlank /\ SearchBlank /\ CtlBlank

Next ==
    \/ NewGame
    \/ \E d \in Directions : move_human(d)
    \/ \E d \in Directions : move_ai(d)
    \/ greedy_get_next_move
    \/ Tick

Spec == Init /\ [][Next]_vars

----------------------------------------------------------------------------
(* ai_agent.py: AStarSearch.search, BFSSearch.search, DFSSearch.search,     *)
(* called on the AI state of the game; one action for the lines before the *)
(* loop, one for a pass of the loop, one for the lines after the loop      *)

\* lines 154-155 and 212-213 without the test len(path) < 100
LongestPathUncapped(path, best) ==
    IF Len(path) > Len(best) THEN path ELSE best

\* lines 154-155 and 212-213: the best path after a state with this path
\* was taken
longest_path(path, best) ==
    IF Len(path) > Len(best) /\ Len(path) < PathCap THEN path ELSE best

\* line 219 with > in place of >=
PastMaxDepth(depth, diff) == depth > MaxDepth(diff)

\* DFSSearch.search line 219: if depth >= max_depth
at_max_depth(depth, diff) == depth >= MaxDepth(diff)

\* the difficulties and the time limits search is called with
Difficulties == {"easy", "medium", "hard"}
MaxTimes == {0, MaxNow}

\* what time.time() may return next
ClockReadings == {t \in {now, now + 1} : t <= MaxNow}

\* a return that never hands out the path recorded
AlwaysNone(bp) == None

\* "if best_path: return best_path" and the "return None" that follows it
BestOrNone(bp) == IF bp # <<>> THEN PathOf(bp) ELSE None

\* search returns value; why names the return statement
Return(value, why) ==
    /\ pc' = "done"
    /\ result' = value
    /\ reason' = why

\* the locals all three searches set before their loop
BeginCommon(name, diff, mt) ==
    /\ pc = "play"
    /\ pc' = "loop"
    /\ alg' = name
    /\ difficulty' = diff
    /\ max_time' = mt
    /\ start_time' = now
    /\ visited' = InitialVisited(sets, ai_state)
    /\ nodes_explored' = 0
    /\ best_path' = <<>>
    /\ trace' = [put |-> <<_get_state_hash(sets, ai_state)>>, got |-> <<>>,
                 cut |-> FALSE, paths |-> <<>>]
    /\ UNCHANGED <<level_data, error, human_state, ai_state, sets, now, call,
                   result, reason>>

\* AStarSearch.search lines 10-28
AStarLocals(diff, mt) ==
    /\ BeginCommon("astar", diff, mt)
    /\ pq' = <<[f |-> _heuristic(sets, ai_state), counter |-> 0, state |-> ai_state,
                g |-> 0, path |-> <<>>]>>
    /\ counter' = 0
    /\ best_state' = NoState
    /\ best_heuristic' = PosInf
    /\ UNCHANGED <<queue, stack>>

\* AStarSearch.search is called
AStarBegin(diff, mt) == AStarLocals(diff, mt) /\ UNCHANGED ctlVars

\* AStarSearch.search lines 30-74: one pass of the loop
AStarIter ==
    /\ pc = "loop" /\ alg = "astar" /\ pq # <<>>
    /\ \E t \in ClockReadings :
        /\ now' = t
        /\ IF t - start_time > max_time
           THEN /\ Return(BestOrNone(best_path), "timeout")
                /\ UNCHANGED <<sets, pq, visited, nodes_explored, best_path,
                               best_heuristic, best_state, counter, trace>>
           ELSE LET got == PQGet(pq)
                    cur == got.entry
                    current_h == _heuristic(sets, cur.state)
                    better == LessThan(current_h, best_heuristic) /\ Len(cur.path) > 0
                    bp == IF better THEN cur.path ELSE best_path
                    taken == Append(trace.got, _get_state_hash(sets, cur.state))
                IN /\ nodes_explored' = nodes_explored + 1
                   /\ best_heuristic' = IF better THEN Finite(current_h) ELSE best_heuristic
                   /\ best_state' = IF better THEN cur.state ELSE best_state
                   /\ best_path' = bp
                   /\ IF is_solved(sets, cur.state)
                      THEN /\ Return(PathOf(cur.path), "solved")
                           /\ pq' = got.rest
                           /\ trace' = [trace EXCEPT !.got = taken,
                                                 !.paths = Append(@, cur.path)]
                           /\ UNCHANGED <<sets, visited, counter>>
                      ELSE LET e == AStarExpand([sets |-> sets, visited |-> visited,
                                                 counter |-> counter, frontier |-> got.rest,
                                                 put |-> trace.put], cur, 1, t)
                           IN /\ sets' = e.sets
                              /\ visited' = e.visited
                              /\ counter' = e.counter
                              /\ pq' = e.frontier
                              /\ trace' = [trace EXCEPT !.put = e.put, !.got = taken,
                                                          !.paths = Append(@, cur.path)]
                              /\ IF nodes_explored + 1 >= AStarMaxNodes(difficulty)
                                 THEN Return(BestOrNone(bp), "node_limit")
                                 ELSE UNCHANGED <<pc, result, reason>>
    /\ UNCHANGED <<level_data, error, human_state, ai_state, call, alg, difficulty,
                   max_time, start_time, queue, stack>>
    /\ UNCHANGED ctlVars

\* AStarSearch.search lines 76-80, reached with the queue empty
AStarExhausted ==
    /\ pc = "loop" /\ alg = "astar" /\ pq = <<>>
    /\ Return(BestOrNone(best_path), "exhausted")
    /\ UNCHANGED <<level_data, error, human_state, ai_state, sets, now, call, alg,
                   difficulty, max_time, start_time, pq, queue, stack, visited,
                   nodes_explored, best_path, best_heuristic, best_state, counter, trace>>
    /\ UNCHANGED ctlVars

\* BFSSearch.search lines 126-140
BFSLocals(diff, mt) ==
    /\ BeginCommon("bfs", diff, mt)
    /\ queue' = <<[state |-> ai_state, path |-> <<>>]>>
    /\ UNCHANGED <<pq, stack, counter, best_state, best_heuristic>>

\* BFSSearch.search is called
BFSBegin(diff, mt) == BFSLocals(diff, mt) /\ UNCHANGED ctlVars

\* BFSSearch.search lines 142-175: one pass of the loop
BFSIter ==
    /\ pc = "loop" /\ alg = "bfs" /\ queue # <<>>
    /\ \E t \in ClockReadings :
        /\ now' = t
        /\ IF t - start_time > max_time
           THEN /\ Return(BestOrNone(best_path), "timeout")
                /\ UNCHANGED <<sets, queue, visited, nodes_explored, best_path, trace>>
           ELSE LET got == QueueGet(queue)
                    cur == got.entry
                    bp == longest_path(cur.path, best_path)
                    taken == Append(trace.got, _get_state_hash(sets, cur.state))
                IN /\ nodes_explored' = nodes_explored + 1
                   /\ best_path' = bp
                   /\ IF is_solved(sets, cur.state)
                      THEN /\ Return(PathOf(cur.path), "solved")
                           /\ queue' = got.rest
                           /\ trace' = [trace EXCEPT !.got = taken,
                                                 !.paths = Append(@, cur.path)]
                           /\ UNCHANGED <<sets, visited>>
                      ELSE LET e == BFSExpand([sets |-> sets, visited |-> visited,
                                               counter |-> counter, frontier |-> got.rest,
                                               put |-> trace.put], cur, 1, t)
                           IN /\ sets' = e.sets
                              /\ visited' = e.visited
                              /\ queue' = e.frontier
                              /\ trace' = [trace EXCEPT !.put = e.put, !.got = taken,
                                                          !.paths = Append(@, cur.path)]
                              /\ IF nodes_explored + 1 >= MaxNodes(difficulty)
                                 THEN Return(BestOrNone(bp), "node_limit")
                                 ELSE UNCHANGED <<pc, result, reason>>
    /\ UNCHANGED <<level_data, error, human_state, ai_state, call, alg, difficulty,
                   max_time, start_time, pq, stack, best_heuristic, best_state, counter>>
    /\ UNCHANGED ctlVars

\* BFSSearch.search line 177, reached with the queue empty
BFSExhausted ==
    /\ pc = "loop" /\ alg = "bfs" /\ queue = <<>>
    /\ Return(None, "exhausted")
    /\ UNCHANGED <<level_data, error, human_state, ai_state, sets, now, call, alg,
                   difficulty, max_time, start_time, pq, queue, stack, visited,
                   nodes_explored, best_path, best_heuristic, best_state, counter, trace>>
    /\ UNCHANGED ctlVars

\* DFSSearch.search lines 182-199
DFSLocals(diff, mt) ==
    /\ BeginCommon("dfs", diff, mt)
    /\ stack' = <<[state |-> ai_state, path |-> <<>>, depth |-> 0]>>
    /\ UNCHANGED <<pq, queue, counter, best_state, best_heuristic>>

\* DFSSearch.search is called
DFSBegin(diff, mt) == DFSLocals(diff, mt) /\ UNCHANGED ctlVars

\* DFSSearch.search lines 201-236: one pass of the loop
DFSIter ==
    /\ pc = "loop" /\ alg = "dfs" /\ stack # <<>>
    /\ \E t \in ClockReadings :
        /\ now' = t
        /\ IF t - start_time > max_time
           THEN /\ Return(BestOrNone(best_path), "timeout")
                /\ UNCHANGED <<sets, stack, visited, nodes_explored, best_path, trace>>
           ELSE LET got == StackPop(stack)
                    cur == got.entry
                    bp == longest_path(cur.path, best_path)
                    taken == Append(trace.got, _get_state_hash(sets, cur.state))
                IN /\ nodes_explored' = nodes_explored + 1
                   /\ best_path' = bp
                   /\ IF is_solved(sets, cur.state)
                      THEN /\ Return(PathOf(cur.path), "solved")
                           /\ stack' = got.rest
                           /\ trace' = [trace EXCEPT !.got = taken,
                                                 !.paths = Append(@, cur.path)]
                           /\ UNCHANGED <<sets, visited>>
                      ELSE IF at_max_depth(cur.depth, difficulty)
                      THEN /\ stack' = got.rest
                           /\ trace' = [trace EXCEPT !.got = taken, !.cut = TRUE,
                                                 !.paths = Append(@, cur.path)]
                           /\ UNCHANGED <<sets, visited, pc, result, reason>>
                      ELSE LET e == DFSExpand([sets |-> sets, visited |-> visited,
                                               counter |-> counter, frontier |-> got.rest,
                                               put |-> trace.put], cur, 1, t)
                           IN /\ sets' = e.sets
                              /\ visited' = e.visited
                              /\ stack' = e.frontier
                              /\ trace' = [trace EXCEPT !.put = e.put, !.got = taken,
                                                          !.paths = Append(@, cur.path)]
                              /\ IF nodes_explored + 1 >= MaxNodes(difficulty)
                                 THEN Return(BestOrNone(bp), "node_limit")
                                 ELSE UNCHANGED <<pc, result, reason>>
    /\ UNCHANGED <<level_data, error, human_state, ai_state, call, alg, difficulty,
                   max_time, start_time, pq, queue, best_heuristic, best_state, counter>>
    /\ UNCHANGED ctlVars

\* DFSSearch.search line 238, reached with the stack empty
DFSExhausted ==
    /\ pc = "loop" /\ alg = "dfs" /\ stack = <<>>
    /\ Return(None, "exhausted")
    /\ UNCHANGED <<level_data, error, human_state, ai_state, sets, now, call, alg,
                   difficulty, max_time, start_time, pq, queue, stack, visited,
                   nodes_explored, best_path, best_heuristic, best_state, counter, trace>>
    /\ UNCHANGED ctlVars

\* the levels searched: a walled room of 3 x 3 cells, a level solved by one
\* push, a crate in a corner (no solution), two crates on an open grid, a
\* level without a player symbol, a level that is solved as loaded, a
\* corridor whose one solution is 14 moves long
SearchLevels ==
    { << <<"#", "#", "#", "#", "#">>,
         <<"#", "@", ".", " ", "#">>,
         <<"#", " ", "$", " ", "#">>,
         <<"#", " ", " ", " ", "#">>,
         <<"#", "#", "#", "#", "#">> >>,
      << <<"@", "$", ".">>, <<" ">> >>,
      << <<"#", "#", "#", "#">>,
         <<"#", "@", "$", "#">>,
         <<"#", ".", "*", "#">>,
         <<"#", "#", "#", "#">> >>,
      << <<" ", "x", " ">>, <<"@", "$", ".">>, <<" ", "$", ".">> >>,
      << <<"#", "$", ".">> >>,
      << <<"@", "*">> >>,
      << <<"@", " ", " ", " ", " ", " ", " ", " ", " ", " ", " ", " ", " ", " ",
           "$", ".">> >> }

InitSearch == level_data \in SearchLevels /\ InitBlank /\ SearchBlank /\ CtlBlank

NextSearch ==
    \/ NewGame
    \/ \E diff \in Difficulties, mt \in MaxTimes : AStarBegin(diff, mt)
    \/ AStarIter
    \/ AStarExhausted
    \/ \E diff \in Difficulties, mt \in MaxTimes : BFSBegin(diff, mt)
    \/ BFSIter
    \/ BFSExhausted
    \/ \E diff \in Difficulties, mt \in MaxTimes : DFSBegin(diff, mt)
    \/ DFSIter
    \/ DFSExhausted

SpecSearch == InitSearch /\ [][NextSearch]_vars

\* one pass of the loop of the search that is running, or its end
SearchStep ==
    \/ AStarIter \/ AStarExhausted
    \/ BFSIter \/ BFSExhausted
    \/ DFSIter \/ DFSExhausted

\* search is sequential code: once called it keeps running
SpecSearchFair == SpecSearch /\ WF_vars(SearchStep)

----------------------------------------------------------------------------
(* ai_agent.py: AIController *)

\* AIController.__init__ lines 296-308
AlgorithmName(algorithm) ==
    IF algorithm \in {"astar", "bfs", "dfs"} THEN algorithm ELSE "astar"

\* self.search_times.get(self.difficulty, 8.0), lines 314-318 and 335
search_times(diff) ==
    IF diff = "easy" THEN SearchTimeEasy
    ELSE IF diff = "medium" THEN SearchTimeMedium
    ELSE IF diff = "hard" THEN SearchTimeHard
    ELSE SearchTimeMedium

\* compute_solution lines 345-351 without line 348
StoreKeepsFallbackFlag(c, solution) ==
    IF ~solution.none /\ Len(solution.path) > 0
    THEN [c EXCEPT !.is_thinking = FALSE, !.solution_path = solution.path,
                   !.current_step = 0]
    ELSE [c EXCEPT !.is_thinking = FALSE, !.solution_path = <<>>, !.current_step = 0]

\* compute_solution lines 340-351 without line 338
StoreLeavesThinking(c, solution) ==
    IF ~solution.none /\ Len(solution.path) > 0
    THEN [c EXCEPT !.solution_path = solution.path, !.current_step = 0]
    ELSE [c EXCEPT !.using_fallback = TRUE,
                   !.solution_path = <<>>, !.current_step = 0]

\* compute_solution lines 338-351: the controller after search returned solution
store_solution(c, solution) ==
    IF ~solution.none /\ Len(solution.path) > 0
    THEN [c EXCEPT !.is_thinking = FALSE, !.solution_path = solution.path,
                   !.current_step = 0]
    ELSE [c EXCEPT !.is_thinking = FALSE, !.using_fallback = TRUE,
                   !.solution_path = <<>>, !.current_step = 0]

\* has_solution without the cursor test of line 370
HasSolutionIgnoresCursor(c) ==
    IF c.using_fallback THEN TRUE
    ELSE Len(c.solution_path) > 0

\* AIController.has_solution()
has_solution(c) ==
    IF c.using_fallback THEN TRUE
    ELSE Len(c.solution_path) > 0 /\ c.current_step < Len(c.solution_path)

\* the state a call was made with, as the claims need it
Snapshot(h, s) == [state |-> s, crates |-> Crates(h, s)]

\* the object and the set store of a snapshot
SnapState(snap) == [snap.state EXCEPT !.crate_positions = 1]
SnapSets(snap) == <<snap.crates>>

\* AIController(algorithm, difficulty)
AIController(algorithm, diff) ==
    /\ pc = "play"
    /\ controller = NoController
    /\ controller' = [algorithm_name |-> AlgorithmName(algorithm),
                      difficulty |-> diff,
                      solution_path |-> <<>>,
                      current_step |-> 0,
                      is_thinking |-> FALSE,
                      using_fallback |-> FALSE]
    /\ ctl_call' = [op |-> "__init__"]
    /\ UNCHANGED searched
    /\ UNCHANGED gameVars
    /\ UNCHANGED searchVars

\* compute_solution(ai_state) lines 326-336: up to the first pass of search.
\* is_thinking is set only while an earlier call is inside search (pc is
\* "loop" or "done"), so lines 328-329 serve a call that arrives then
compute_solution ==
    /\ controller # NoController
    /\ IF controller.is_thinking
       THEN /\ ctl_call' = [op |-> "compute_solution", ret |-> TRUE, ran |-> FALSE]
            /\ UNCHANGED <<controller, searched>>
            /\ UNCHANGED gameVars
            /\ UNCHANGED searchVars
       ELSE /\ pc = "play"
            /\ controller' = [controller EXCEPT !.is_thinking = TRUE,
                                                !.using_fallback = FALSE]
            /\ searched' = [none |-> FALSE, returned |-> FALSE,
                            from |-> Snapshot(sets, ai_state)]
            /\ ctl_call' = [op |-> "compute_solution (in search)"]
            /\ LET diff == controller.difficulty
                   mt == search_times(diff)
               IN IF controller.algorithm_name = "astar" THEN AStarLocals(diff, mt)
                  ELSE IF controller.algorithm_name = "bfs" THEN BFSLocals(diff, mt)
                  ELSE DFSLocals(diff, mt)

\* compute_solution lines 336-351: search has returned
compute_solution_return ==
    /\ pc = "done"
    /\ controller # NoController
    /\ controller.is_thinking
    /\ pc' = "play"
    /\ controller' = store_solution(controller, result)
    /\ ctl_call' = [op |-> "compute_solution", ret |-> TRUE, ran |-> TRUE]
    /\ searched' = [searched EXCEPT !.returned = TRUE] @@
                   [solution |-> result, reason |-> reason, seen |-> {}]
    \* the locals of search, and the clones its frontier held, are gone
    /\ sets' = SubSeq(sets, 1, 2)
    /\ alg' = "none"
    /\ difficulty' = "none"
    /\ max_time' = 0
    /\ start_time' = NoTime
    /\ pq' = <<>>
    /\ queue' = <<>>
    /\ stack' = <<>>
    /\ visited' = {}
    /\ nodes_explored' = 0
    /\ best_path' = <<>>
    /\ best_heuristic' = PosInf
    /\ best_state' = NoState
    /\ counter' = 0
    /\ result' = None
    /\ reason' = "none"
    /\ trace' = [put |-> <<>>, got |-> <<>>, cut |-> FALSE, paths |-> <<>>]
    /\ UNCHANGED <<level_data, error, human_state, ai_state, now, call>>

\* get_next_move lines 359-364 with line 361 left out
PlanCursorStays(c) ==
    IF c.current_step < Len(c.solution_path)
    THEN [ret |-> c.solution_path[c.current_step + 1], controller |-> c]
    ELSE [ret |-> "None", controller |-> c]

\* get_next_move lines 359-364: the value returned from the stored path (list
\* index current_step is element current_step + 1 of the sequence) and the
\* controller afterwards
plan_next_move(c) ==
    IF c.current_step < Len(c.solution_path)
    THEN [ret |-> c.solution_path[c.current_step + 1],
          controller |-> [c EXCEPT !.current_step = @ + 1]]
    ELSE [ret |-> "None", controller |-> c]

\* get_next_move lines 355-357 asking the fallback about the state that was
\* handed to compute_solution instead of the state handed to this call
FallbackOnSearchedState(c, h, s, nearest_crate, t) ==
    LET h0 == SnapSets(searched.from)
        s0 == SnapState(searched.from)
    IN [ret |-> IF UnsolvedCrates(h0, s0) = {} THEN "None"
                ELSE GreedyNextMove(h0, s0,
                                    CHOOSE n \in NearestCrates(h0, s0) : TRUE, t).ret,
        controller |-> c]

\* get_next_move lines 355-357: the value the greedy fallback returns for the
\* state handed to this call, and the controller afterwards
fallback_next_move(c, h, s, nearest_crate, t) ==
    [ret |-> GreedyNextMove(h, s, nearest_crate, t).ret, controller |-> c]

\* what the application does with the value of get_next_move (frontend.py
\* lines 518-522): a move is handed to move_ai
ApplyNextMove(c, next_move, used_fallback) ==
    /\ controller' = c
    /\ ctl_call' = [op |-> "get_next_move", ret |-> next_move,
                    fallback |-> used_fallback,
                    before |-> controller,
                    pre |-> Snapshot(sets, ai_state)]
    /\ IF next_move # "None"
       THEN LET r == move(sets, ai_state, next_move, now)
            IN /\ ai_state' = r.state
               /\ sets' = r.sets
               /\ call' = [op |-> "move", who |-> "ai", dir |-> next_move,
                           ret |-> r.ret, pre |-> View(sets, ai_state)]
       ELSE UNCHANGED <<ai_state, sets, call>>

\* get_next_move(ai_state) lines 353-364, and the move applied to the live
\* state as the application does
get_next_move ==
    /\ pc = "play"
    /\ controller # NoController
    /\ ai_state.moves < MaxMoves
    /\ IF controller.using_fallback
       THEN IF UnsolvedCrates(sets, ai_state) = {}
            THEN ApplyNextMove(controller, "None", TRUE)
            ELSE \E nearest_crate \in NearestCrates(sets, ai_state) :
                    LET r == fallback_next_move(controller, sets, ai_state,
                                                nearest_crate, now)
                    IN ApplyNextMove(r.controller, r.ret, TRUE)
       ELSE LET r == plan_next_move(controller)
            IN ApplyNextMove(r.controller, r.ret, FALSE)
    \* the keys of the states get_next_move was called with since the last
    \* compute_solution
    /\ searched' = IF searched.none THEN searched
                   ELSE [searched EXCEPT
                            !.seen = @ \cup {_get_state_hash(sets, ai_state)}]
    /\ UNCHANGED <<level_data, pc, error, human_state, now>>
    /\ UNCHANGED searchVars

\* a call of has_solution(): it reads the controller and assigns nothing
has_pending_move ==
    /\ pc = "play"
    /\ controller # NoController
    /\ ctl_call' = [op |-> "has_solution", ret |-> has_solution(controller)]
    /\ UNCHANGED <<controller, searched>>
    /\ UNCHANGED gameVars
    /\ UNCHANGED searchVars

\* reset without line 377
ResetKeepsFallbackFlag(c) ==
    [c EXCEPT !.solution_path = <<>>, !.current_step = 0, !.is_thinking = FALSE]

\* reset lines 374-377: the controller afterwards
reset_fields(c) ==
    [c EXCEPT !.solution_path = <<>>, !.current_step = 0,
              !.is_thinking = FALSE, !.using_fallback = FALSE]

\* AIController.reset()
reset ==
    /\ pc = "play"
    /\ controller # NoController
    /\ controller' = reset_fields(controller)
    /\ ctl_call' = [op |-> "reset"]
    /\ searched' = NoSearch
    /\ UNCHANGED gameVars
    /\ UNCHANGED searchVars

\* the algorithm and difficulty names handed to AIController
Algorithms == {"astar", "bfs", "dfs", "idastar"}

InitCtl == level_data \in SearchLevels /\ InitBlank /\ SearchBlank /\ CtlBlank

NextCtl ==
    \/ NewGame
    \/ \E algorithm \in Algorithms, diff \in Difficulties : AIController(algorithm, diff)
    \/ compute_solution
    \/ SearchStep
    \/ compute_solution_return
    \/ get_next_move
    \/ has_pending_move
    \/ reset

SpecCtl == InitCtl /\ [][NextCtl]_vars

----------------------------------------------------------------------------
(* What the claims speak of, read off the level text and the directions *)

RECURSIVE CountRow(_, _, _)
CountRow(row, chars, i) ==
    IF i > Len(row) THEN 0
    ELSE (IF row[i] \in chars THEN 1 ELSE 0) + CountRow(row, chars, i + 1)

RECURSIVE CountLevel(_, _, _)
\* the number of cells of the level whose character is in chars
CountLevel(level, chars, i) ==
    IF i > Len(level) THEN 0
    ELSE CountRow(level[i], chars, 1) + CountLevel(level, chars, i + 1)

CrateCount(level) == CountLevel(level, {"$", "*"}, 1)
TargetCount(level) == CountLevel(level, {".", "*", "+"}, 1)

\* the cell next to pos in direction d: x grows to the right, y grows downwards
Toward(pos, d) ==
    <<pos[1] + (IF d = "RIGHT" THEN 1 ELSE IF d = "LEFT" THEN -1 ELSE 0),
      pos[2] + (IF d = "DOWN" THEN 1 ELSE IF d = "UP" THEN -1 ELSE 0)>>

\* pos lies in the rectangle of the level: as many rows, as wide as its longest row
InGrid(level, pos) ==
    /\ 0 <= pos[2] /\ pos[2] < Len(level)
    /\ 0 <= pos[1] /\ \E i \in 1..Len(level) : pos[1] < Len(level[i])

\* the character of the level at pos; a short row is padded with blanks
CharAt(level, pos) ==
    IF pos[1] < Len(level[pos[2] + 1]) THEN level[pos[2] + 1][pos[1] + 1] ELSE " "

WallAt(level, pos) == InGrid(level, pos) /\ CharAt(level, pos) = "#"
TargetAt(level, pos) == InGrid(level, pos) /\ CharAt(level, pos) \in {".", "*", "+"}

\* the object the last call was made on, and its fields now
Receiver == IF call.who = "human" THEN human_state ELSE ai_state
Post == View(sets, Receiver)
\* the fields the search reads: position, crates and the two counters
Core(v) == <<v.player_pos, v.crates, v.moves, v.pushes>>

----------------------------------------------------------------------------
(* Claims on construction and on GameState.move *)

\* C1: construction succeeds if and only if the level holds as many crates as
\* targets and at least one of each; otherwise a ValueError is raised and no
\* state object (and no set of it) is left behind.
C1_ConstructionIffCountsMatch ==
    pc # "new" =>
        /\ (pc = "play") <=> (CrateCount(level_data) = TargetCount(level_data)
                               /\ CrateCount(level_data) >= 1)
        /\ pc = "play" => /\ error = NoError
                          /\ human_state # NoState /\ ai_state # NoState
                          /\ Cardinality(Crates(sets, human_state)) = CrateCount(level_data)
                          /\ Cardinality(human_state.targets) = TargetCount(level_data)
        /\ pc # "play" => /\ pc = "failed"
                          /\ error.type = "ValueError"
                          /\ human_state = NoState /\ ai_state = NoState
                          /\ sets = <<>>

\* a level of two rows with a player on a target and one crate is accepted
C1_Witness ==
    /\ pc = "play"
    /\ CountLevel(level_data, {"+"}, 1) = 1
    /\ CrateCount(level_data) = 1
    /\ Len(level_data) = 2

\* C2 as stated: a move call leaves its input (player position, crate
\* positions, move_count, push_count) as it was.
C2_MoveLeavesInputUnchanged ==
    call.op = "move" => Core(Post) = Core(call.pre)

\* C2 as amended: move updates its receiver in place (an accepted move changes
\* its position and move_count); the input is left unchanged when the move is
\* made on a clone, as the greedy fallback does, and the direction a clone
\* accepted is accepted again when applied to the state itself.
C2_MoveInPlaceCloneProtects ==
    /\ (call.op = "move" /\ call.ret) =>
            /\ Post.player_pos # call.pre.player_pos
            /\ Post.moves # call.pre.moves
    /\ call.op = "greedy" =>
            /\ Post = call.pre
            /\ Len(sets) = 2
            /\ call.ret => move(sets, ai_state, call.dir, now).ret

\* the fallback returned a direction in which its clone pushed a crate
C2_Witness ==
    /\ call.op = "greedy"
    /\ call.ret
    /\ Toward(ai_state.player_pos, call.dir) \in Crates(sets, ai_state)

\* C3 as stated: a rejected move leaves every field as it was, the playing
\* clock (is_playing, start_time, end_time) included.
C3_RejectedMoveChangesNothing ==
    (call.op = "move" /\ ~call.ret) => Post = call.pre

\* C3 as amended: a rejected move leaves player position, crate positions,
\* move_count, push_count and end_time as they were; is_playing and
\* start_time too if the state was playing, and otherwise the call has
\* started the playing clock.
C3_RejectedMoveOnlyStartsClock ==
    (call.op = "move" /\ ~call.ret) =>
        /\ Core(Post) = Core(call.pre)
        /\ Post.end_time = call.pre.end_time
        /\ Post.is_playing
        /\ call.pre.is_playing => Post.start_time = call.pre.start_time
        /\ ~call.pre.is_playing => Post.start_time # NoTime /\ Post.start_time <= now

\* the first call on a state is a rejected push
C3_Witness ==
    /\ call.op = "move"
    /\ ~call.ret
    /\ ~call.pre.is_playing
    /\ Toward(call.pre.player_pos, call.dir) \in call.pre.crates

\* C4: when the player's target cell holds a crate, the move fails exactly
\* when the cell beyond is outside the grid, a wall or holds another crate;
\* otherwise that crate alone goes to the cell beyond and push_count grows by 1.
C4_PushRule ==
    (call.op = "move" /\ Toward(call.pre.player_pos, call.dir) \in call.pre.crates) =>
        LET from == Toward(call.pre.player_pos, call.dir)
            to == Toward(from, call.dir)
            blocked == \/ ~InGrid(level_data, to)
                       \/ WallAt(level_data, to)
                       \/ to \in call.pre.crates
        IN /\ call.ret = ~blocked
           /\ call.ret => /\ Post.crates = (call.pre.crates \ {from}) \cup {to}
                          /\ Cardinality(Post.crates) = Cardinality(call.pre.crates)
                          /\ Post.pushes = call.pre.pushes + 1

\* a push with a second crate that stays where it is
C4_Witness ==
    /\ call.op = "move"
    /\ call.ret
    /\ Toward(call.pre.player_pos, call.dir) \in call.pre.crates
    /\ Cardinality(call.pre.crates) = 2

\* C5: an accepted move puts the player on the adjacent cell in the direction
\* given and adds 1 to move_count; a step onto a cell without a crate leaves
\* the crates and push_count as they were.
C5_AcceptedMove ==
    (call.op = "move" /\ call.ret) =>
        /\ Post.player_pos = Toward(call.pre.player_pos, call.dir)
        /\ Post.moves = call.pre.moves + 1
        /\ Toward(call.pre.player_pos, call.dir) \notin call.pre.crates =>
                /\ Post.crates = call.pre.crates
                /\ Post.pushes = call.pre.pushes

\* a simple step made after a push
C5_Witness ==
    /\ call.op = "move"
    /\ call.ret
    /\ Toward(call.pre.player_pos, call.dir) \notin call.pre.crates
    /\ call.pre.pushes = 1

\* C6: in every state of a constructed game no crate is on a wall, the player
\* is not on a wall, and there are as many crates as targets.
C6_NothingOnWalls ==
    pc = "play" =>
        \A s \in {human_state, ai_state} :
            /\ \A c \in Crates(sets, s) : ~WallAt(level_data, c)
            /\ ~WallAt(level_data, s.player_pos)
            /\ Cardinality(Crates(sets, s)) = Cardinality(s.targets)

\* C7: is_solved holds exactly when the crates occupy exactly the target
\* cells of the level, so the two states of a game, whenever their canonical
\* keys are equal, agree on is_solved whatever their counters.
C7_SolvedIffCratesOnTargets ==
    pc = "play" =>
        /\ \A s \in {human_state, ai_state} :
              is_solved(sets, s) <=>
                  /\ \A c \in Crates(sets, s) : TargetAt(level_data, c)
                  /\ \A y \in 0..(s.height - 1) : \A x \in 0..(s.width - 1) :
                        TargetAt(level_data, <<x, y>>) => <<x, y>> \in Crates(sets, s)
        /\ _get_state_hash(sets, human_state) = _get_state_hash(sets, ai_state) =>
              is_solved(sets, human_state) = is_solved(sets, ai_state)

\* two solved states with equal keys and different counters
C7_Witness ==
    /\ pc = "play"
    /\ _get_state_hash(sets, human_state) = _get_state_hash(sets, ai_state)
    /\ human_state.moves # ai_state.moves
    /\ is_solved(sets, human_state)
    /\ is_solved(sets, ai_state)

----------------------------------------------------------------------------
(* The graph of canonical keys of a puzzle, for the claims on the searches *)

\* the keys that one accepted move leads to from key, in the puzzle of s0
KeySuccs(s0, key) ==
    LET s == [s0 EXCEPT !.player_pos = key[1], !.crate_positions = 1]
    IN {_get_state_hash(m.sets, m.state) :
            m \in {n \in {move(<<key[2]>>, s, d, 1) : d \in Directions} : n.ret}}

RECURSIVE MinSolveFrom(_, _, _, _)
\* the least number of moves from a key of layer to a key whose crates are
\* the targets, plus n; -1 if there is none.  seen holds the keys of the
\* layers so far
MinSolveFrom(s0, layer, seen, n) ==
    IF \E k \in layer : k[2] = s0.targets THEN n
    ELSE LET next == UNION {KeySuccs(s0, k) : k \in layer} \ seen
         IN IF next = {} THEN -1
            ELSE MinSolveFrom(s0, next, seen \cup next, n + 1)

\* the length of a shortest solving move sequence from the object s, or -1
MinSolveLen(h, s) ==
    MinSolveFrom(s, {_get_state_hash(h, s)}, {_get_state_hash(h, s)}, 0)

RECURSIVE Replay(_, _, _, _)
\* the path applied to the object s with move, from its i-th direction on:
\* whether every move was accepted, and the object and the store at the end
Replay(h, s, path, i) ==
    IF i > Len(path) THEN [ok |-> TRUE, state |-> s, sets |-> h]
    ELSE LET m == move(h, s, path[i], now)
         IN IF m.ret THEN Replay(m.sets, m.state, path, i + 1)
            ELSE [ok |-> FALSE, state |-> m.state, sets |-> m.sets]

\* the path replayed from the state search was called with
ReplayFromInitial(path) ==
    LET c == clone(sets, ai_state)
    IN Replay(c.sets, c.state, path, 1)

NoDuplicates(seq) == \A i, j \in 1..Len(seq) : i # j => seq[i] # seq[j]

----------------------------------------------------------------------------
(* Claims on the searches *)

\* C8: within one search call of A*, BFS or DFS no canonical key is put into
\* the frontier twice, the key of the initial state included, and so none is
\* taken from it (expanded) twice; visited holds exactly the keys put.
C8_NoKeyExpandedTwice ==
    pc \in {"loop", "done"} =>
        /\ NoDuplicates(trace.put)
        /\ NoDuplicates(trace.got)
        /\ visited = {trace.put[i] : i \in 1..Len(trace.put)}
        /\ \A i \in 1..Len(trace.got) : trace.got[i] \in visited
        /\ trace.put[1] = _get_state_hash(sets, ai_state)

\* a search ran to the end although an expanded state had the initial key as
\* a successor
C8_Witness ==
    /\ pc = "done"
    /\ reason = "exhausted"
    /\ \E i \in 2..Len(trace.got) : trace.put[1] \in KeySuccs(ai_state, trace.got[i])

\* C9: a search that returns because it took a solved state from the
\* frontier returns a path that, replayed from the initial state with move,
\* holds accepted moves only and ends in that solved state; the solved state
\* is the last one taken and none of its successors was put into the frontier.
C9_SolvedPathReplays ==
    (pc = "done" /\ reason = "solved") =>
        /\ ~result.none
        /\ LET r == ReplayFromInitial(result.path)
           IN /\ r.ok
              /\ is_solved(r.sets, r.state)
              /\ _get_state_hash(r.sets, r.state) = trace.got[Len(trace.got)]
        /\ Len(trace.got) = nodes_explored
        /\ \A i \in 2..Len(trace.put) :
              \E j \in 1..(Len(trace.got) - 1) :
                  trace.put[i] \in KeySuccs(ai_state, trace.got[j])
        /\ ~ENABLED (AStarIter \/ BFSIter \/ DFSIter)

\* a search returned a solving path of four moves or more
C9_Witness ==
    /\ pc = "done"
    /\ reason = "solved"
    /\ Len(result.path) >= 4

\* C10: BFS on a solvable puzzle, ended by neither the time limit nor the
\* node ceiling, returns a solving path of the least length there is.
C10_BFSPathIsShortest ==
    (/\ pc = "done"
     /\ alg = "bfs"
     /\ reason \notin {"timeout", "node_limit"}
     /\ MinSolveLen(sets, ai_state) >= 0) =>
        /\ ~result.none
        /\ LET r == ReplayFromInitial(result.path)
           IN r.ok /\ is_solved(r.sets, r.state)
        /\ Len(result.path) = MinSolveLen(sets, ai_state)

\* BFS returned a path of four moves on the walled room, where the state
\* first reached by four moves is not a solved one
C10_Witness ==
    /\ pc = "done"
    /\ alg = "bfs"
    /\ reason = "solved"
    /\ Len(result.path) = 4
    /\ Len(level_data) = 5

\* the path, replayed from the initial state, holds accepted moves only and
\* ends in a solved state
Solves(path) ==
    LET r == ReplayFromInitial(path)
    IN r.ok /\ is_solved(r.sets, r.state)

\* the search returned for another reason than its time limit or node ceiling
BudgetsNotTriggered == reason \notin {"timeout", "node_limit"}

\* C11 as stated: on a solvable puzzle, with the time limit and the node
\* ceiling not triggering, BFS and DFS both return a path that solves the
\* puzzle.
C11_BFSAndDFSSolve ==
    (/\ pc = "done"
     /\ alg \in {"bfs", "dfs"}
     /\ BudgetsNotTriggered
     /\ MinSolveLen(sets, ai_state) >= 0) =>
        (~result.none /\ Solves(result.path))

\* C11 amended: on a solvable puzzle, with the time limit and the node
\* ceiling not triggering, BFS returns a path that solves the puzzle, and so
\* does DFS unless it left a state at its depth ceiling unexpanded.
C11_BFSSolvesDFSWithinDepth ==
    (/\ pc = "done"
     /\ alg \in {"bfs", "dfs"}
     /\ BudgetsNotTriggered
     /\ (alg = "dfs" => ~trace.cut)
     /\ MinSolveLen(sets, ai_state) >= 0) =>
        (~result.none /\ Solves(result.path))

\* DFS returned a solving path on the walled room after it had taken five
\* states or more from its stack
C11_Witness ==
    /\ pc = "done"
    /\ alg = "dfs"
    /\ reason = "solved"
    /\ ~trace.cut
    /\ Len(level_data) = 5
    /\ nodes_explored >= 5
    /\ Solves(result.path)

\* what a search hands out in place of a solution: the path recorded, if it
\* is not empty, else no path
PartialResult(bp) == IF Len(bp) > 0 THEN [none |-> FALSE, path |-> bp]
                     ELSE [none |-> TRUE, path |-> <<>>]

\* the frontier of the search that is running
Frontier == IF alg = "astar" THEN pq ELSE IF alg = "bfs" THEN queue ELSE stack

\* the node ceiling of the search that is running
Ceiling == IF alg = "astar" THEN AStarMaxNodes(difficulty) ELSE MaxNodes(difficulty)

\* C12: a search that ends because its frontier is empty, no solved state
\* taken, returns the best path recorded if it is not empty, and no path
\* only if it is empty.
C12_ExhaustionReturnsBestPath ==
    (pc = "done" /\ reason = "exhausted") => result = PartialResult(best_path)

\* C13: every pass of the loop of A*, BFS and DFS reads the clock first; if
\* the time limit has elapsed the search takes nothing more from the frontier,
\* puts nothing into it, and returns the best path recorded if it is not
\* empty, else no path; if it has not elapsed the pass does not end by timeout.
C13_TimeCheckedFirst ==
    [][(pc = "loop" /\ Frontier # <<>>) =>
          /\ (now' - start_time > max_time) =>
                /\ pc' = "done"
                /\ reason' = "timeout"
                /\ result' = PartialResult(best_path)
                /\ nodes_explored' = nodes_explored
                /\ trace' = trace
                /\ visited' = visited
          /\ (now' - start_time <= max_time) =>
                /\ nodes_explored' = nodes_explored + 1
                /\ reason' # "timeout"]_vars

\* a search ended by its time limit after it had taken states from the
\* frontier, and returned the path it had recorded
C13_Witness ==
    /\ pc = "done"
    /\ reason = "timeout"
    /\ nodes_explored >= 2
    /\ best_path # <<>>
    /\ result = PartialResult(best_path)

\* C14: a search called with a time limit of 0 takes no state from the
\* frontier, whatever the clock reads: nodes_explored stays 0 and the result
\* is no path or an empty path.
C14_ZeroTimeLimitExpandsNothing ==
    (pc \in {"loop", "done"} /\ max_time = 0) =>
        /\ nodes_explored = 0
        /\ trace.got = <<>>
        /\ pc = "done" => (result.none \/ result.path = <<>>)

\* C15: the states taken from the frontier in one search call never number
\* more than the node ceiling of the difficulty, and a search stopped by the
\* ceiling returns the best path recorded if it is not empty, else no path.
C15_NodeCeilingNeverExceeded ==
    pc \in {"loop", "done"} =>
        /\ nodes_explored <= Ceiling
        /\ reason = "node_limit" => result = PartialResult(best_path)

\* C16: every search call comes to an end; and where neither the time limit
\* nor the node ceiling can trigger (difficulty hard, time limit MaxNow), it
\* ends by a solution or by an empty frontier.
C16_SearchTerminates ==
    /\ (pc = "loop") ~> (pc = "done")
    /\ (pc = "loop" /\ difficulty = "hard" /\ max_time = MaxNow)
          ~> (pc = "done" /\ reason \in {"solved", "exhausted"})

\* a search of the level whose crate is in a corner ended with its frontier
\* empty, the budgets not triggered
C16_Witness ==
    /\ pc = "done"
    /\ reason = "exhausted"
    /\ difficulty = "hard"
    /\ max_time = MaxNow
    /\ MinSolveLen(sets, ai_state) = -1
    /\ nodes_explored >= 2

\* C17: during and after a search call the state it was called with has the
\* player position, crates, move_count and push_count it had before the call
\* (those of the level as loaded), and so has the human player's state.
C17_SearchLeavesInitialStateUnchanged ==
    pc \in {"loop", "done"} =>
        LET a == GameStateInit(<<>>, level_data, "ai")
        IN /\ View(sets, ai_state) = View(a.sets, a.state)
           /\ View(sets, human_state) = View(a.sets, a.state)

\* a search returned a path with a push in it: a clone's crate set differed
\* from that of the state the search was called with
C17_Witness ==
    /\ pc = "done"
    /\ reason = "solved"
    /\ Len(result.path) >= 1
    /\ Crates(sets, ai_state) # ai_state.targets

----------------------------------------------------------------------------
(* Claims on the greedy fallback *)

\* the direction that closes the offset n on an axis: toward is taken for a
\* positive offset, away for any other
Closing(n, toward, away) == IF n > 0 THEN toward ELSE away

\* the preference list as the claim has it: the direction closing the larger
\* axis distance (the horizontal one on a tie), then the one closing the
\* other axis if that offset is not 0, then the directions not yet listed
\* in the order UP, DOWN, LEFT, RIGHT
Preference(crate, player) ==
    LET dx == crate[1] - player[1]
        dy == crate[2] - player[2]
        horizontal == Closing(dx, "RIGHT", "LEFT")
        vertical == Closing(dy, "DOWN", "UP")
        toward == IF Abs(dy) > Abs(dx)
                  THEN <<vertical>> \o (IF dx = 0 THEN <<>> ELSE <<horizontal>>)
                  ELSE <<horizontal>> \o (IF dy = 0 THEN <<>> ELSE <<vertical>>)
    IN toward \o SelectSeq(<<"UP", "DOWN", "LEFT", "RIGHT">>,
                           LAMBDA d : \A i \in 1..Len(toward) : toward[i] # d)

\* the directions in which move succeeds on the ai state
LegalNow == {d \in Directions : move(sets, ai_state, d, now).ret}

\* the first legal direction of a list, or "None"
FirstLegal(ds) ==
    IF \A i \in 1..Len(ds) : ds[i] \notin LegalNow THEN "None"
    ELSE ds[CHOOSE i \in 1..Len(ds) :
                /\ ds[i] \in LegalNow
                /\ \A j \in 1..(i - 1) : ds[j] \notin LegalNow]

\* C27: the greedy fallback returns a direction only if move in that
\* direction succeeds on the given state; the direction is the first legal
\* one of the preference list for a nearest off-target crate; it returns
\* nothing exactly when no crate is off target or no direction is legal;
\* the given state is as it was before the call and no clone is kept.
C27_GreedyReturnsFirstLegal ==
    call.op = "greedy" =>
        /\ View(sets, ai_state) = call.pre
        /\ Len(sets) = 2
        /\ call.dir # "None" => call.dir \in LegalNow
        /\ call.dir = "None" <=>
              (UnsolvedCrates(sets, ai_state) = {} \/ LegalNow = {})
        /\ UnsolvedCrates(sets, ai_state) # {} =>
              \E crate \in NearestCrates(sets, ai_state) :
                  call.dir = FirstLegal(Preference(crate, ai_state.player_pos))

\* greedy returned a direction other than the first of its preference list,
\* because move is rejected in that first direction
C27_Witness ==
    /\ call.op = "greedy"
    /\ call.dir # "None"
    /\ \A crate \in NearestCrates(sets, ai_state) :
          /\ Preference(crate, ai_state.player_pos)[1] \notin LegalNow
          /\ call.dir # Preference(crate, ai_state.player_pos)[1]

----------------------------------------------------------------------------
(* Claims on the controller *)

\* every crate of the snapshot is on a target
SnapSolved(snap) == snap.crates = snap.state.targets

\* the directions in which move succeeds on the snapshot
LegalMoves(snap) ==
    {d \in Directions : move(SnapSets(snap), SnapState(snap), d, now).ret}

\* the search of the last compute_solution has returned
SearchReturned == ~searched.none /\ searched.returned

\* what it returned is a path that, from the state compute_solution was
\* called with, holds accepted moves only and ends in a solved state
FullPlan ==
    /\ ~searched.solution.none
    /\ LET r == Replay(SnapSets(searched.from), SnapState(searched.from),
                       searched.solution.path, 1)
       IN r.ok /\ is_solved(r.sets, r.state)

HasPlan ==
    /\ ~controller.using_fallback
    /\ controller.solution_path # <<>>
    /\ controller.current_step = 0

UsingFallback ==
    /\ controller.using_fallback
    /\ controller.solution_path = <<>>
    /\ controller.current_step = 0

\* C18: compute_solution always returns True, and when it has run a search
\* the controller is left in HasPlan with the path returned, if the search
\* returned a non-empty path, and in UsingFallback if it returned None or an
\* empty path; is_thinking is false again.
C18_ComputeSolutionNeverFails ==
    ctl_call.op = "compute_solution" =>
        /\ ctl_call.ret = TRUE
        /\ ctl_call.ran =>
              /\ pc = "play"
              /\ ~controller.is_thinking
              /\ HasPlan # UsingFallback
              /\ IF ~searched.solution.none /\ Len(searched.solution.path) > 0
                 THEN HasPlan /\ controller.solution_path = searched.solution.path
                 ELSE UsingFallback

\* compute_solution returned after a search that had emptied its frontier
\* and handed out no path: the controller uses the fallback
C18_Witness ==
    /\ ctl_call.op = "compute_solution"
    /\ ctl_call.ran
    /\ searched.reason = "exhausted"
    /\ searched.solution.none
    /\ UsingFallback

\* C19: if the search of compute_solution returned no full plan, the
\* controller uses the greedy fallback from then on, until reset: every
\* get_next_move is answered by the fallback.
C19_NoFullPlanMeansFallback ==
    (pc = "play" /\ controller # NoController /\ SearchReturned /\ ~FullPlan) =>
        /\ controller.using_fallback
        /\ ctl_call.op = "get_next_move" => ctl_call.fallback

\* C20: after compute_solution, with every move returned applied to the live
\* state, get_next_move returns a move whenever the live state is unsolved
\* and has a legal move.
C20_GetNextMoveAlwaysMoves ==
    (/\ ctl_call.op = "get_next_move"
     /\ SearchReturned
     /\ ~SnapSolved(ctl_call.pre)
     /\ LegalMoves(ctl_call.pre) # {}) =>
        ctl_call.ret # "None"

\* the moves applied to the live state since the last compute_solution, up
\* to the call the snapshot was taken at
MovesSince(snap) == snap.state.moves - searched.from.state.moves

\* C21: with a stored path, get_next_move returns the element of the path at
\* the cursor and advances the cursor by 1, so that the k-th call after
\* compute_solution returns the k-th element; with the cursor at the length
\* of the path it returns nothing and leaves the cursor where it is.  The
\* path itself is never changed.
C21_PlanReturnedInOrder ==
    (/\ ctl_call.op = "get_next_move"
     /\ ~ctl_call.before.using_fallback
     /\ ctl_call.before.solution_path # <<>>) =>
        LET path == ctl_call.before.solution_path
            k == ctl_call.before.current_step
        IN /\ controller.solution_path = path
           /\ ~controller.using_fallback
           /\ IF k < Len(path)
              THEN ctl_call.ret = path[k + 1] /\ controller.current_step = k + 1
              ELSE ctl_call.ret = "None" /\ controller.current_step = k
           /\ SearchReturned =>
                 /\ path = searched.solution.path
                 /\ k = MovesSince(ctl_call.pre)

\* a path of two moves has been handed out and the next call returned nothing
C21_Witness ==
    /\ ctl_call.op = "get_next_move"
    /\ ~ctl_call.before.using_fallback
    /\ Len(ctl_call.before.solution_path) = 2
    /\ ctl_call.before.current_step = 2
    /\ ctl_call.ret = "None"

\* what SimpleGreedyFallback.get_next_move may return for the snapshot
GreedyAnswers(snap) ==
    IF UnsolvedCrates(SnapSets(snap), SnapState(snap)) = {} THEN {"None"}
    ELSE {GreedyNextMove(SnapSets(snap), SnapState(snap), nearest_crate, now).ret :
            nearest_crate \in NearestCrates(SnapSets(snap), SnapState(snap))}

\* C22: while using_fallback is set, get_next_move returns what the greedy
\* fallback returns for the state handed to that call, the live state, and
\* changes no field of the controller.
C22_FallbackAnswersForLiveState ==
    (ctl_call.op = "get_next_move" /\ ctl_call.before.using_fallback) =>
        /\ ctl_call.ret \in GreedyAnswers(ctl_call.pre)
        /\ ctl_call.fallback
        /\ controller = ctl_call.before

\* the fallback answered for a live state that differs from the state
\* compute_solution was called with, with a move the greedy fallback does
\* not return for that earlier state
C22_Witness ==
    /\ ctl_call.op = "get_next_move"
    /\ ctl_call.before.using_fallback
    /\ SearchReturned
    /\ ctl_call.pre.state.player_pos # searched.from.state.player_pos
    /\ ctl_call.ret # "None"
    /\ ctl_call.ret \notin GreedyAnswers(searched.from)

\* the controller as its history tells it: Idle before any compute_solution
\* and after reset, otherwise what the last search returned
Idle == searched.none
PlanStored == SearchReturned /\ ~searched.solution.none /\ searched.solution.path # <<>>
FallbackEngaged == SearchReturned /\ ~PlanStored

\* C23: has_solution answers true exactly when the controller uses the
\* fallback, or holds a plan of which fewer moves have been handed out than
\* it has; it answers false in Idle and once the plan is exhausted.
C23_HasSolution ==
    ctl_call.op = "has_solution" =>
        /\ Idle => ~ctl_call.ret
        /\ FallbackEngaged => ctl_call.ret
        /\ PlanStored =>
              (ctl_call.ret <=>
                  ai_state.moves - searched.from.state.moves
                      < Len(searched.solution.path))
        /\ ctl_call.ret <=>
              \/ controller.using_fallback
              \/ /\ controller.solution_path # <<>>
                 /\ controller.current_step < Len(controller.solution_path)

\* has_solution answered false after the last move of a plan was handed out
C23_Witness ==
    /\ ctl_call.op = "has_solution"
    /\ PlanStored
    /\ ai_state.moves - searched.from.state.moves = Len(searched.solution.path)
    /\ ~ctl_call.ret

\* the fields of the controller as __init__ leaves them
IdleFields ==
    /\ controller.solution_path = <<>>
    /\ controller.current_step = 0
    /\ ~controller.is_thinking
    /\ ~controller.using_fallback

\* C24: reset leaves the stored path empty, the cursor 0, is_thinking and
\* using_fallback false, whatever the controller held; from then until the
\* next compute_solution, get_next_move returns nothing, has_solution
\* answers false, and the fields stay as reset left them.
C24_ResetReturnsToIdle ==
    (pc = "play" /\ controller # NoController /\ Idle) =>
        /\ IdleFields
        /\ ctl_call.op = "get_next_move" =>
              ctl_call.ret = "None" /\ ctl_call.before = controller
        /\ ctl_call.op = "has_solution" => ~ctl_call.ret

\* get_next_move returned nothing after a reset that came after moves of an
\* earlier compute_solution
C24_Witness ==
    /\ pc = "play"
    /\ Idle
    /\ ai_state.moves > 0
    /\ ctl_call.op = "get_next_move"
    /\ ctl_call.ret = "None"
    /\ ~SnapSolved(ctl_call.pre)
    /\ LegalMoves(ctl_call.pre) # {}

\* C25 as claimed: compute_solution followed by get_next_move calls, each
\* move applied to the live state, has no infinite run in which every call
\* returns a move.  While the fallback is used the controller keeps nothing
\* between calls, so a run that comes back to a key (player, crates) it was
\* called with before can repeat for ever; the claim therefore says that
\* no move returned brings the live state back to such a key.
C25_EventuallyReturnsNothing ==
    (/\ ctl_call.op = "get_next_move"
     /\ SearchReturned
     /\ ctl_call.ret # "None") =>
        _get_state_hash(sets, ai_state) \notin searched.seen

\* C25: compute_solution followed by get_next_move calls, each move applied
\* to the live state, raises no error and every move returned is accepted
\* by the live state; with a stored path the calls return nothing from the
\* moment as many moves were returned as the path holds; with the fallback
\* a call returns nothing exactly when no crate is off target or no
\* direction is legal, and a move otherwise, which may go on for ever.
C25_ReturnsNothingWhenExhaustedOrStuck ==
    (ctl_call.op = "get_next_move" /\ SearchReturned) =>
        /\ error = NoError
        /\ ctl_call.ret # "None" =>
              call.op = "move" /\ call.dir = ctl_call.ret /\ call.ret
        /\ IF PlanStored
           THEN ctl_call.ret = "None" <=>
                   MovesSince(ctl_call.pre) = Len(searched.solution.path)
           ELSE ctl_call.ret = "None" <=>
                   \/ UnsolvedCrates(SnapSets(ctl_call.pre),
                                     SnapState(ctl_call.pre)) = {}
                   \/ LegalMoves(ctl_call.pre) = {}

\* the fallback returned a move that brought the live state back to a key
\* it was called with before: the run can go on like this for ever
C25_Witness ==
    /\ ctl_call.op = "get_next_move"
    /\ SearchReturned
    /\ ctl_call.before.using_fallback
    /\ ctl_call.ret # "None"
    /\ _get_state_hash(sets, ai_state) \in searched.seen

\* C26: a compute_solution call made while is_thinking is set returns at
\* once: it runs no search and changes no field of the controller, nor
\* anything of the search under way or of the game; and a compute_solution
\* call that ran a search has is_thinking false when it returns.
C26_NoReentryWhileThinking ==
    [][(ctl_call' # ctl_call /\ ctl_call'.op = "compute_solution") =>
          IF controller.is_thinking /\ ~ctl_call'.ran
          THEN /\ UNCHANGED <<controller, searched>>
               /\ UNCHANGED gameVars
               /\ UNCHANGED searchVars
          ELSE /\ controller.is_thinking
               /\ ctl_call'.ran
               /\ pc = "done" /\ pc' = "play"
               /\ ~controller'.is_thinking]_vars

\* a compute_solution call was made while a search had already expanded a
\* node, and returned without running a search
C26_Witness ==
    /\ ctl_call.op = "compute_solution"
    /\ ~ctl_call.ran
    /\ controller.is_thinking
    /\ pc = "loop"
    /\ nodes_explored >= 1

----------------------------------------------------------------------------
(* Claims on A* and its heuristic *)

\* the wall-bordered level with a 3x3 interior, the player at (1,1), the
\* target at (2,1) and the crate at (2,2)
ScenarioA ==
    << <<"#", "#", "#", "#", "#">>,
       <<"#", "@", ".", " ", "#">>,
       <<"#", " ", "$", " ", "#">>,
       <<"#", " ", " ", " ", "#">>,
       <<"#", "#", "#", "#", "#">> >>

\* A* has returned on ScenarioA without its time limit or node ceiling
\* cutting it short
ScenarioADone ==
    /\ pc = "done"
    /\ alg = "astar"
    /\ level_data = ScenarioA
    /\ ai_state.player_pos = <<1, 1>>
    /\ Crates(sets, ai_state) = {<<2, 2>>}
    /\ ai_state.targets = {<<2, 1>>}
    /\ BudgetsNotTriggered

\* C28 as claimed: on ScenarioA, A* returns the single move UP after at most
\* one expansion beyond the root.
C28_ScenarioASingleMoveUp ==
    ScenarioADone =>
        /\ result = PathOf(<<"UP">>)
        /\ nodes_explored <= 2

\* C28: on ScenarioA, A* returns the four moves DOWN, DOWN, RIGHT, UP, which
\* take the player around the crate to (2,3) and then push the crate from
\* (2,2) to (2,1); it has taken 10 states from its queue, the root included.
C28_ScenarioAFourMoves ==
    ScenarioADone =>
        /\ reason = "solved"
        /\ result = PathOf(<<"DOWN", "DOWN", "RIGHT", "UP">>)
        /\ nodes_explored = 10
        /\ LET before == Replay(sets, ai_state, <<"DOWN", "DOWN", "RIGHT">>, 1)
               after == ReplayFromInitial(result.path)
           IN /\ before.ok
              /\ before.state.player_pos = <<2, 3>>
              /\ Crates(before.sets, before.state) = {<<2, 2>>}
              /\ after.ok
              /\ after.state.player_pos = <<2, 2>>
              /\ Crates(after.sets, after.state) = {<<2, 1>>}
              /\ after.state.pushes = 1

\* A* has returned a path on ScenarioA that solves it
C28_Witness ==
    /\ ScenarioADone
    /\ reason = "solved"
    /\ Solves(result.path)

\* the crates of s that are on no target and that _is_corner_deadlock flags
FlaggedCrates(h, s) ==
    {c \in Crates(h, s) : c \notin s.targets /\ _is_corner_deadlock(s, c)}

\* C29: a crate that is on no target and is flagged as a corner deadlock is
\* at the same cell after every move, and the state a move leaves is not
\* solved: from such a state no sequence of moves moves the crate or solves
\* the level.
C29_CornerDeadlockIsPermanent ==
    [][(pc = "play" /\ pc' = "play") =>
          /\ \A c \in FlaggedCrates(sets, ai_state) :
                c \in FlaggedCrates(sets', ai_state')
          /\ \A c \in FlaggedCrates(sets, human_state) :
                c \in FlaggedCrates(sets', human_state')
          /\ FlaggedCrates(sets, ai_state) # {} => ~is_solved(sets', ai_state')
          /\ FlaggedCrates(sets, human_state) # {} =>
                ~is_solved(sets', human_state')]_vars

\* the crates of s that are on no target and at distance d, and no less,
\* from the targets
OffTargetAt(h, s, d) ==
    {c \in Crates(h, s) \ s.targets :
        /\ \E t \in s.targets : Manhattan(c, t) = d
        /\ \A t \in s.targets : Manhattan(c, t) >= d}

RECURSIVE DistanceSum(_, _, _)
\* the sum, over the crates on no target, of the distance to the nearest
\* target, taken distance by distance up to d
DistanceSum(h, s, d) ==
    IF d = 0 THEN 0
    ELSE d * Cardinality(OffTargetAt(h, s, d)) + DistanceSum(h, s, d - 1)

\* the value the claim gives the heuristic
ClaimedHeuristic(h, s) ==
    DistanceSum(h, s, s.width + s.height)
    + 500 * Cardinality(FlaggedCrates(h, s))

\* C30: for every state A* puts into its queue, the heuristic added to the
\* path length is the sum, over the crates on no target, of the Manhattan
\* distance to the nearest target, plus 500 for each of them in a corner
\* deadlock; it is 0 for a solved state, and 0 only for a solved state.
C30_HeuristicValue ==
    (alg = "astar" /\ pc \in {"loop", "done"}) =>
        \A i \in 1..Len(pq) :
            LET s == pq[i].state
            IN /\ pq[i].f - pq[i].g = ClaimedHeuristic(sets, s)
               /\ _heuristic(sets, s) = ClaimedHeuristic(sets, s)
               /\ is_solved(sets, s) => _heuristic(sets, s) = 0
               /\ _heuristic(sets, s) = 0 => is_solved(sets, s)

\* the queue of A* holds a state with one crate off target, next to a
\* target and in a corner deadlock: its heuristic is 1 + 500
C30_Witness ==
    /\ alg = "astar"
    /\ pc = "loop"
    /\ \E i \in 1..Len(pq) :
          /\ Cardinality(FlaggedCrates(sets, pq[i].state)) = 1
          /\ ~is_solved(sets, pq[i].state)
          /\ pq[i].f - pq[i].g = 501

\* the insertion numbers of the entries of a queue
Counters(q) == {q[i].counter : i \in 1..Len(q)}

\* C31: every entry A* takes from its queue has the lowest f of the queue
\* and, among the entries of that f, the lowest insertion number; the
\* insertion numbers of the queue are pairwise different, none is above the
\* counter, and every entry put gets a number above all numbers given
\* before, so that the order is settled by f and the number alone.
C31_LowestFThenEarliest ==
    [][(alg = "astar" /\ pc = "loop" /\ nodes_explored' = nodes_explored + 1) =>
          /\ \A i, j \in 1..Len(pq) : i # j => pq[i].counter # pq[j].counter
          /\ \A i \in 1..Len(pq) : pq[i].counter <= counter
          /\ \E i \in 1..Len(pq) :
                /\ pq[i].counter \notin Counters(pq')
                /\ \A j \in 1..Len(pq) :
                      \/ pq[i].f < pq[j].f
                      \/ pq[i].f = pq[j].f /\ pq[i].counter <= pq[j].counter
                /\ \A j \in 1..Len(pq) : j # i => pq[j] \in {pq'[k] : k \in 1..Len(pq')}
                /\ trace'.got[Len(trace'.got)] = _get_state_hash(sets, pq[i].state)
                /\ \A k \in 1..Len(pq') :
                      \/ pq'[k] \in {pq[j] : j \in 1..Len(pq)}
                      \/ /\ pq'[k].counter > counter
                         /\ pq'[k].counter <= counter'
                         /\ pq'[k].f = pq'[k].g + _heuristic(sets', pq'[k].state)
                         /\ pq'[k].g = pq[i].g + 1
          /\ \A i, j \in 1..Len(pq') : i # j => pq'[i].counter # pq'[j].counter]_vars

\* A* has taken three entries or more, and its queue holds two entries of
\* equal f, put at different times, and an entry of another f
C31_Witness ==
    /\ alg = "astar"
    /\ pc = "loop"
    /\ nodes_explored >= 3
    /\ \E i, j, k \in 1..Len(pq) :
          /\ pq[i].f = pq[j].f
          /\ pq[i].counter < pq[j].counter
          /\ pq[k].f # pq[i].f

\* the heuristic of the state a path leads to from the state search was
\* called with
HeuristicAfter(path) ==
    LET r == ReplayFromInitial(path)
    IN _heuristic(r.sets, r.state)

\* the positions, in the order of expansion, of the states expanded with a
\* path that is not empty
NonRoot == {i \in 1..Len(trace.paths) : Len(trace.paths[i]) > 0}

\* C32: while A* runs and when it has returned, the best partial path is
\* empty if no state but the root was expanded; otherwise it is the path
\* of the first expanded state, the root left out, whose heuristic is the
\* lowest of all expanded states, the root left out, and best_heuristic is
\* that value.
C32_BestPathHasLowestHeuristic ==
    (alg = "astar" /\ pc \in {"loop", "done"}) =>
        IF NonRoot = {}
        THEN best_path = <<>> /\ best_heuristic = PosInf
        ELSE \E i \in NonRoot :
                /\ \A j \in NonRoot :
                      \/ HeuristicAfter(trace.paths[i]) < HeuristicAfter(trace.paths[j])
                      \/ /\ HeuristicAfter(trace.paths[i]) = HeuristicAfter(trace.paths[j])
                         /\ i <= j
                /\ best_path = trace.paths[i]
                /\ best_heuristic = Finite(HeuristicAfter(trace.paths[i]))

\* A* has expanded, the root left out, two states of one heuristic value
\* and then a state of a lower one, whose path is the best path now
C32_Witness ==
    /\ alg = "astar"
    /\ pc \in {"loop", "done"}
    /\ \E i, j, k \in NonRoot :
          /\ k < j /\ j < i
          /\ HeuristicAfter(trace.paths[k]) = HeuristicAfter(trace.paths[j])
          /\ HeuristicAfter(trace.paths[j]) > HeuristicAfter(trace.paths[i])
          /\ best_path = trace.paths[i]

\* the lengths below the cap of the paths of the states expanded so far
ExpandedLengths ==
    {Len(trace.paths[i]) : i \in 1..Len(trace.paths)} \cap 0..(PathCap - 1)

\* C33: in BFS and DFS the best partial path is the first path taken of the
\* greatest length below the cap (100 in the source, PathCap here) among the
\* paths of the states expanded, and empty if only the root was expanded; a
\* pass of the loop leaves it as it is or replaces it by the longer path,
\* of fewer moves than the cap, of the state it takes, so that its length
\* never decreases and never reaches the cap.
C33_BestPathIsLongestBelowCap ==
    [][(alg \in {"bfs", "dfs"} /\ pc = "loop") =>
          /\ Len(best_path) < PathCap
          /\ Len(best_path) \in ExpandedLengths \cup {0}
          /\ \A n \in ExpandedLengths : n <= Len(best_path)
          /\ Len(best_path) > 0 =>
                \E i \in 1..Len(trace.paths) :
                    /\ trace.paths[i] = best_path
                    /\ \A j \in 1..(i - 1) : Len(trace.paths[j]) < Len(best_path)
          /\ Len(best_path') >= Len(best_path)
          /\ Len(best_path') < PathCap
          /\ best_path' # best_path =>
                /\ Len(best_path') > Len(best_path)
                /\ trace'.paths = Append(trace.paths, best_path')]_vars

\* BFS has expanded a state whose path is two moves or more above the cap,
\* and its best path is one move below the cap
C33_Witness ==
    /\ alg = "bfs"
    /\ \E i \in 1..Len(trace.paths) : Len(trace.paths[i]) >= PathCap + 2
    /\ Len(best_path) = PathCap - 1

\* C34: in DFS every stack entry has a depth of at most the depth ceiling of
\* the difficulty; a pass that takes a state at the ceiling that is not
\* solved puts nothing on the stack; and every path DFS returns has at most
\* as many moves as the ceiling.
C34_DepthCeilingHolds ==
    [][(alg = "dfs" /\ pc = "loop") =>
          /\ \A i \in 1..Len(stack) :
                /\ stack[i].depth <= MaxDepth(difficulty)
                /\ Len(stack[i].path) <= MaxDepth(difficulty)
          /\ \A i \in 1..Len(stack') : stack'[i].depth <= MaxDepth(difficulty)
          /\ (/\ nodes_explored' = nodes_explored + 1
              /\ stack[Len(stack)].depth = MaxDepth(difficulty)) =>
                /\ stack' = SubSeq(stack, 1, Len(stack) - 1)
                /\ visited' = visited
          /\ Len(best_path') <= MaxDepth(difficulty)
          /\ (pc' = "done" /\ ~result'.none) =>
                Len(result'.path) <= MaxDepth(difficulty)]_vars

\* DFS has left a state at its depth ceiling unexpanded, one that has a
\* legal move to a state not yet visited
C34_Witness ==
    /\ alg = "dfs"
    /\ trace.cut
    /\ \E i \in 1..Len(trace.paths) :
          /\ Len(trace.paths[i]) = MaxDepth(difficulty)
          /\ LET r == ReplayFromInitial(trace.paths[i])
             IN \E d \in Directions :
                   LET m == move(r.sets, r.state, d, now)
                   IN m.ret /\ _get_state_hash(m.sets, m.state) \notin visited

RECURSIVE PushesOn(_, _, _, _)
\* the number of moves of path, from its i-th on, that change the crate set
\* when the path is replayed on s
PushesOn(h, s, path, i) ==
    IF i > Len(path) THEN 0
    ELSE LET m == move(h, s, path[i], now)
         IN (IF Crates(m.sets, m.state) # Crates(h, s) THEN 1 ELSE 0)
            + PushesOn(m.sets, m.state, path, i + 1)

\* C35: for every entry in the frontier of A*, BFS or DFS, the path of the
\* entry replayed from the state search was called with holds accepted
\* moves only and ends at the player position and crate set of the entry;
\* the entry's moves are those of the initial state plus the length of the
\* path, its pushes those of the initial state plus the pushes on the path;
\* the g of A* and the depth of DFS are the length of the path.
C35_FrontierEntriesReplay ==
    (pc = "loop" /\ alg \in {"astar", "bfs", "dfs"}) =>
        \A i \in 1..Len(Frontier) :
            LET e == Frontier[i]
                r == ReplayFromInitial(e.path)
            IN /\ r.ok
               /\ r.state.player_pos = e.state.player_pos
               /\ Crates(r.sets, r.state) = Crates(sets, e.state)
               /\ e.state.moves = ai_state.moves + Len(e.path)
               /\ e.state.pushes =
                     ai_state.pushes + PushesOn(sets, ai_state, e.path, 1)
               /\ alg = "astar" => e.g = Len(e.path)
               /\ alg = "dfs" => e.depth = Len(e.path)

\* a search called on a state that had been moved and pushed before holds
\* a frontier entry whose path has two moves or more, a push among them
C35_Witness ==
    /\ pc = "loop"
    /\ ai_state.moves > 0
    /\ ai_state.pushes > 0
    /\ \E i \in 1..Len(Frontier) :
          /\ Len(Frontier[i].path) >= 2
          /\ PushesOn(sets, ai_state, Frontier[i].path, 1) >= 1

----------------------------------------------------------------------------
(* Claims on the states of a game *)

\* C36: in every state of a constructed game, whatever moves were made, the
\* player is on no crate, and pushes is at most moves.
C36_PlayerOffCrates ==
    pc = "play" =>
        \A s \in {human_state, ai_state} :
            /\ s.player_pos \notin Crates(sets, s)
            /\ s.pushes <= s.moves

====
